---- MODULE Spec2Model ----
(***************************************************************************)
(* Model of go-compact-float: the compact-float wire codec                 *)
(* (src/compact-float.go, Encode / Decode over *apd.Decimal) and the       *)
(* DFloat value model (src/dfloat.go, constructors and minimized()).       *)
(*                                                                         *)
(* 64-bit and arbitrary-precision integers are naturals written as         *)
(* little-endian sequences of 7-bit limbs (base 128), the unit the wire    *)
(* format itself uses; the empty sequence is 0 and no number carries a     *)
(* zero top limb.  Fixed-width Go arithmetic is applied explicitly         *)
(* (U64, ToInt64, ToInt32).                                                *)
(***************************************************************************)
EXTENDS Integers, Sequences, FiniteSets, TLC

\* ------------------------------------------------------------------------
\* Natural numbers of any size (math/big and uint64 before truncation)
\* ------------------------------------------------------------------------

RECURSIVE Trim(_)
Trim(s) ==
    IF s = <<>> THEN s
    ELSE IF s[Len(s)] = 0 THEN Trim(SubSeq(s, 1, Len(s) - 1)) ELSE s

RECURSIVE MulAddRaw(_, _, _)
MulAddRaw(s, m, c) ==
    IF s = <<>>
    THEN IF c = 0 THEN <<>> ELSE <<c % 128>> \o MulAddRaw(s, m, c \div 128)
    ELSE LET t == s[1] * m + c
         IN <<t % 128>> \o MulAddRaw(Tail(s), m, t \div 128)

\* s * m + c for small m, c
MulAdd(s, m, c) == Trim(MulAddRaw(s, m, c))

FromInt(n) == MulAdd(<<>>, 1, n)

RECURSIVE DivRemRaw(_, _)
DivRemRaw(s, d) ==
    IF s = <<>> THEN [q |-> <<>>, r |-> 0]
    ELSE LET hi == DivRemRaw(Tail(s), d)
             cur == hi.r * 128 + s[1]
         IN [q |-> <<cur \div d>> \o hi.q, r |-> cur % d]

\* s \div d and s % d for small d
DivSmall(s, d) == Trim(DivRemRaw(s, d).q)
ModSmall(s, d) == DivRemRaw(s, d).r

RECURSIVE CmpAt(_, _, _)
CmpAt(a, b, i) ==
    IF i = 0 THEN 0
    ELSE IF a[i] < b[i] THEN -1
    ELSE IF a[i] > b[i] THEN 1
    ELSE CmpAt(a, b, i - 1)

\* -1, 0, 1 as a < b, a = b, a > b
Cmp(a, b) ==
    IF Len(a) < Len(b) THEN -1
    ELSE IF Len(a) > Len(b) THEN 1
    ELSE CmpAt(a, b, Len(a))

RECURSIVE AddRaw(_, _, _)
AddRaw(a, b, c) ==
    IF a = <<>> /\ b = <<>>
    THEN IF c = 0 THEN <<>> ELSE <<c>>
    ELSE LET x == IF a = <<>> THEN 0 ELSE a[1]
             y == IF b = <<>> THEN 0 ELSE b[1]
             t == x + y + c
         IN <<t % 128>> \o AddRaw(IF a = <<>> THEN a ELSE Tail(a),
                                  IF b = <<>> THEN b ELSE Tail(b), t \div 128)

Add(a, b) == Trim(AddRaw(a, b, 0))

RECURSIVE SubRaw(_, _, _)
SubRaw(a, b, br) ==
    IF a = <<>> THEN <<>>
    ELSE LET y == IF b = <<>> THEN 0 ELSE b[1]
             t == a[1] - y - br
         IN <<(t + 128) % 128>> \o SubRaw(Tail(a),
                                          IF b = <<>> THEN b ELSE Tail(b),
                                          IF t < 0 THEN 1 ELSE 0)

\* a - b for a >= b
Sub(a, b) == Trim(SubRaw(a, b, 0))

RECURSIVE Pow2Int(_)
Pow2Int(k) == IF k = 0 THEN 1 ELSE 2 * Pow2Int(k - 1)

\* 2^k: bit k % 7 of limb k \div 7
Pow2(k) ==
    [i \in 1..(k \div 7 + 1) |-> IF i = k \div 7 + 1 THEN Pow2Int(k % 7) ELSE 0]

\* s mod 2^k: the low k bits
ModPow2(s, k) ==
    LET q == k \div 7
        r == k % 7
    IN IF Len(s) <= q THEN s
       ELSE Trim(SubSeq(s, 1, q) \o <<s[q + 1] % Pow2Int(r)>>)

RECURSIVE ShiftRight(_, _)
ShiftRight(s, k) ==
    IF k = 0 THEN s
    ELSE IF k >= 7 THEN ShiftRight(IF s = <<>> THEN s ELSE Tail(s), k - 7)
    ELSE DivSmall(s, Pow2Int(k))

RECURSIVE ShiftLeft(_, _)
ShiftLeft(s, k) ==
    IF k = 0 \/ s = <<>> THEN s
    ELSE IF k >= 7 THEN <<0>> \o ShiftLeft(s, k - 7)
    ELSE MulAdd(s, Pow2Int(k), 0)

RECURSIVE FromDigitsAcc(_, _)
FromDigitsAcc(acc, ds) ==
    IF ds = <<>> THEN acc
    ELSE LET next == MulAdd(acc, 10, ds[1])
         IN IF Len(next) >= 0 THEN FromDigitsAcc(next, Tail(ds)) ELSE next

\* the natural number written by a sequence of decimal digits
FromDigits(ds) == FromDigitsAcc(<<>>, ds)

RECURSIVE TimesTen(_, _)
\* mag x 10^e, e >= 0, in unbounded arithmetic
TimesTen(mag, e) ==
    IF e = 0 THEN mag
    ELSE LET next == MulAdd(mag, 10, 0)
         IN IF Len(next) >= 0 THEN TimesTen(next, e - 1) ELSE mag

Two63 == Pow2(63)
Two64 == Pow2(64)
MaxInt64 == Sub(Two63, <<1>>)
MaxUint64 == Sub(Two64, <<1>>)

\* Go's uint64 arithmetic keeps the low 64 bits
U64(s) == ModPow2(s, 64)

RECURSIVE ToNat(_)
\* a natural below 2^31 as an integer
ToNat(s) == IF s = <<>> THEN 0 ELSE s[1] + 128 * ToNat(Tail(s))

MaxInt32 == 2147483647
MinInt32 == -MaxInt32 - 1

\* Go's int32(x) of an unsigned x: the low 32 bits, read as two's complement
ToInt32(s) ==
    LET m == ModPow2(s, 32)
    IN IF Cmp(m, Pow2(31)) < 0 THEN ToNat(m)
       ELSE IF m = Pow2(31) THEN MinInt32
       ELSE -ToNat(Sub(Pow2(32), m))

\* Go's uint64(x) of an int32 x (sign extension)
Uint64FromInt32(x) ==
    IF x >= 0 THEN FromInt(x)
    ELSE Sub(Two64, MulAdd(FromInt(-(x + 1)), 1, 1))

\* Go's -x on int32: the most negative value negates to itself
Neg32(x) == IF x = MinInt32 THEN MinInt32 ELSE -x

\* A signed 64-bit integer is [neg, mag]: sign and magnitude, mag <= 2^63 - 1
\* or, negative, mag = 2^63; zero is never negative.
Int64(neg, mag) == [neg |-> neg /\ mag # <<>>, mag |-> mag]

\* Go's int64(x) of a uint64 x: values from 2^63 up read as negative
ToInt64(u) ==
    IF Cmp(u, Two63) >= 0 THEN Int64(TRUE, Sub(Two64, u)) ELSE Int64(FALSE, u)

\* Go's -x on int64: the most negative value negates to itself
Neg64(c) ==
    IF c.neg /\ c.mag = Two63 THEN c ELSE Int64(~c.neg, c.mag)

\* ------------------------------------------------------------------------
\* apd.Decimal (github.com/cockroachdb/apd): Form, Negative, Exponent, Coeff
\* ------------------------------------------------------------------------

Decimal(form, negative, exponent, coeff) ==
    [Form |-> form, Negative |-> negative, Exponent |-> exponent, Coeff |-> coeff]

\* a nil *apd.Decimal
NilValue == Decimal("nil", FALSE, 0, <<>>)

\* apd.Decimal.IsZero: finite with a zero coefficient
apdIsZero(value) == value.Form = "Finite" /\ value.Coeff = <<>>

\* apd.New(coeff, exponent) for a signed coeff [neg, mag]
apdNew(coeff, exponent) ==
    Decimal("Finite", coeff.neg /\ coeff.mag # <<>>, exponent, coeff.mag)

\* ------------------------------------------------------------------------
\* ULEB128 (github.com/kstenerud/go-uleb128): the variable-length unsigned
\* integer codec.  7 value bits per byte, low group first, the top bit of a
\* byte set when another byte follows.
\* ------------------------------------------------------------------------

RECURSIVE ulebBytes(_)
ulebBytes(limbs) ==
    IF limbs = <<>> THEN <<0>>
    ELSE IF Len(limbs) = 1 THEN limbs
    ELSE <<limbs[1] + 128>> \o ulebBytes(Tail(limbs))

\* uleb128.EncodeUint64 / uleb128.Encode into a destination of dstLen bytes
ulebEncode(value, dstLen) ==
    LET b == ulebBytes(value)
    IN IF Len(b) > dstLen
       THEN [bytesEncoded |-> Len(b), ok |-> FALSE, bytes |-> <<>>]
       ELSE [bytesEncoded |-> Len(b), ok |-> TRUE, bytes |-> b]

RECURSIVE TermIndex(_, _)
\* index of the first byte at or after i with a clear continuation bit, or 0
TermIndex(src, i) ==
    IF i > Len(src) THEN 0
    ELSE IF src[i] < 128 THEN i
    ELSE TermIndex(src, i + 1)

\* uleb128.Decode(0, 0, src): asBig is set (isBig) when the value needs more
\* than 64 bits; ok is false when src ends before the terminating byte
ulebDecode(src) ==
    LET t == TermIndex(src, 1)
        n == IF t = 0 THEN Len(src) ELSE t
        v == Trim([i \in 1..n |-> src[i] % 128])
        big == Cmp(v, Two64) >= 0
    IN [asUint |-> IF big THEN <<>> ELSE v,
        isBig |-> big,
        asBig |-> IF big THEN v ELSE <<>>,
        byteCount |-> n,
        ok |-> t # 0]

\* ------------------------------------------------------------------------
\* src/compact-float.go: Encode
\* ------------------------------------------------------------------------

EncodeResult(n, ok, bytes) == [bytesEncoded |-> n, ok |-> ok, bytes |-> bytes]

encodeSpecialValue(dstLen, value) ==
    IF dstLen < 1 THEN EncodeResult(1, FALSE, <<>>)
    ELSE EncodeResult(1, TRUE, <<value>>)

\* the two bytes in the other order: the marker 0x80, then the kind
encodeExtendedSpecialValueKindLast(dstLen, value) ==
    IF dstLen < 2 THEN EncodeResult(2, FALSE, <<>>)
    ELSE EncodeResult(2, TRUE, <<128, value>>)

encodeExtendedSpecialValue(dstLen, value) ==
    IF dstLen < 2 THEN EncodeResult(2, FALSE, <<>>)
    ELSE EncodeResult(2, TRUE, <<128 + value, 0>>)

encodeQuietNan(dstLen) == encodeExtendedSpecialValue(dstLen, 0)
encodeSignalingNan(dstLen) == encodeExtendedSpecialValue(dstLen, 1)
encodeInfinity(dstLen) == encodeExtendedSpecialValue(dstLen, 2)
encodeNegativeInfinity(dstLen) == encodeExtendedSpecialValue(dstLen, 3)
encodeZero(dstLen) == encodeSpecialValue(dstLen, 2)
encodeNegativeZero(dstLen) == encodeSpecialValue(dstLen, 3)

\* the two sign flags in each other's bit
exponentFieldSignsSwapped(value) ==
    LET exponentSign == IF value.Exponent < 0 THEN 1 ELSE 0
        exponent == IF value.Exponent < 0 THEN Neg32(value.Exponent)
                    ELSE value.Exponent
        significandSign == IF value.Negative THEN 1 ELSE 0
    IN MulAdd(U64(ShiftLeft(Uint64FromInt32(exponent), 2)), 1,
              2 * significandSign + exponentSign)

\* uint64(exponent)<<2 | uint64(exponentSign)<<1 | uint64(significandSign)
exponentFieldOf(value) ==
    LET exponentSign == IF value.Exponent < 0 THEN 1 ELSE 0
        exponent == IF value.Exponent < 0 THEN Neg32(value.Exponent)
                    ELSE value.Exponent
        significandSign == IF value.Negative THEN 1 ELSE 0
    IN MulAdd(U64(ShiftLeft(Uint64FromInt32(exponent), 2)), 1,
              2 * exponentSign + significandSign)

\* the coefficient written in front of the exponent field
EncodeNormalCoefficientFirst(value, dstLen) ==
    LET first == ulebEncode(value.Coeff, dstLen)
        offset == first.bytesEncoded
        second == ulebEncode(exponentFieldOf(value), dstLen - offset)
    IN IF ~first.ok THEN EncodeResult(first.bytesEncoded, FALSE, <<>>)
       ELSE IF ~second.ok THEN EncodeResult(second.bytesEncoded, FALSE, first.bytes)
       ELSE EncodeResult(second.bytesEncoded + offset, TRUE,
                         first.bytes \o second.bytes)

EncodeNormal(value, dstLen) ==
    LET first == ulebEncode(exponentFieldOf(value), dstLen)
        offset == first.bytesEncoded
        second == ulebEncode(value.Coeff, dstLen - offset)
    IN IF ~first.ok THEN EncodeResult(first.bytesEncoded, FALSE, <<>>)
       ELSE IF ~second.ok THEN EncodeResult(second.bytesEncoded, FALSE, first.bytes)
       ELSE EncodeResult(second.bytesEncoded + offset, TRUE,
                         first.bytes \o second.bytes)

Encode(value, dstLen) ==
    IF apdIsZero(value)
    THEN IF value.Negative THEN encodeNegativeZero(dstLen) ELSE encodeZero(dstLen)
    ELSE IF value.Form = "Infinite"
    THEN IF value.Negative THEN encodeNegativeInfinity(dstLen)
         ELSE encodeInfinity(dstLen)
    ELSE IF value.Form = "NaN" THEN encodeQuietNan(dstLen)
    ELSE IF value.Form = "NaNSignaling" THEN encodeSignalingNan(dstLen)
    ELSE EncodeNormal(value, dstLen)

\* ------------------------------------------------------------------------
\* src/compact-float.go: Decode
\* ------------------------------------------------------------------------

DecodeResult(value, n, err) == [value |-> value, bytesDecoded |-> n, err |-> err]

\* a limit one bit too wide
maxEncodedExponentWide == Sub(Pow2(34), <<1>>)

\* apd stores the exponent in a signed 32-bit int
maxEncodedExponent == Sub(Pow2(33), <<1>>)

\* only the low 32-bit word handed to SetBits on a 32-bit platform
setBitsLowWord(asUint, is32) ==
    IF is32 THEN ModPow2(asUint, 32) ELSE asUint

\* big.Int.SetBits of the words Decode hands it for a coefficient with the
\* top bit of 64 set: one 64-bit word, or two 32-bit words low word first
setBitsOf(asUint, is32) ==
    IF is32
    THEN Add(ModPow2(asUint, 32), ShiftLeft(ModPow2(ShiftRight(asUint, 32), 32), 32))
    ELSE asUint

DecodeSpecial(src) ==
    IF Len(src) = 1 /\ src[1] = 2
    THEN DecodeResult(Decimal("Finite", FALSE, 0, <<>>), 1, "nil")
    ELSE IF Len(src) = 1 /\ src[1] = 3
    THEN DecodeResult(Decimal("Finite", TRUE, 0, <<>>), 1, "nil")
    ELSE IF Len(src) = 2 /\ src[2] = 0 /\ src[1] = 128
    THEN DecodeResult(Decimal("NaN", FALSE, 0, <<>>), 2, "nil")
    ELSE IF Len(src) = 2 /\ src[2] = 0 /\ src[1] = 129
    THEN DecodeResult(Decimal("NaNSignaling", FALSE, 0, <<>>), 2, "nil")
    ELSE IF Len(src) = 2 /\ src[2] = 0 /\ src[1] = 130
    THEN DecodeResult(Decimal("Infinite", FALSE, 0, <<>>), 2, "nil")
    ELSE IF Len(src) = 2 /\ src[2] = 0 /\ src[1] = 131
    THEN DecodeResult(Decimal("Infinite", TRUE, 0, <<>>), 2, "nil")
    ELSE DecodeResult(NilValue, 0, "none")

\* the exponent sign flag ignored
exponentOfUnsigned(asUint) == ToInt32(ShiftRight(asUint, 2))

\* exponent := int32(asUint >> 2), negated when asUint&2 != 0
exponentOf(asUint) ==
    IF ModSmall(ShiftRight(asUint, 1), 2) # 0
    THEN Neg32(ToInt32(ShiftRight(asUint, 2)))
    ELSE ToInt32(ShiftRight(asUint, 2))

\* the value Decode builds from a complete coefficient field
coefficientValue(second, negativeFlag, exponent, is32) ==
    IF second.isBig
    THEN Decimal("Finite", negativeFlag, exponent, second.asBig)
    ELSE IF Cmp(second.asUint, Two63) >= 0
    THEN Decimal("Finite", negativeFlag, exponent, setBitsOf(second.asUint, is32))
    ELSE apdNew(IF negativeFlag THEN Neg64(ToInt64(second.asUint))
                ELSE ToInt64(second.asUint), exponent)

\* a coefficient field that ends without its last byte taken as complete
DecodeCoefficientLenient(src, first, is32) ==
    LET err1 == IF first.ok THEN "nil" ELSE "ErrorIncomplete"
        negativeFlag == ModSmall(first.asUint, 2) # 0
        offset == first.byteCount
        second == ulebDecode(SubSeq(src, offset + 1, Len(src)))
    IN DecodeResult(coefficientValue(second, negativeFlag,
                                     exponentOf(first.asUint), is32),
                    second.byteCount + offset, err1)

\* the second half of Decode: the coefficient field after an accepted
\* exponent field (err still holds what the first field's decode left)
DecodeCoefficient(src, first, is32) ==
    LET err1 == IF first.ok THEN "nil" ELSE "ErrorIncomplete"
        negativeFlag == ModSmall(first.asUint, 2) # 0
        offset == first.byteCount
        second == ulebDecode(SubSeq(src, offset + 1, Len(src)))
    IN IF ~second.ok
       THEN DecodeResult(NilValue, second.byteCount, "ErrorIncomplete")
       ELSE DecodeResult(coefficientValue(second, negativeFlag,
                                          exponentOf(first.asUint), is32),
                         second.byteCount + offset, err1)

DecodeFields(src, is32) ==
    LET first == ulebDecode(src)
    IN IF first.isBig
       THEN DecodeResult(NilValue, first.byteCount, "ExponentTooBig")
       ELSE IF Cmp(first.asUint, maxEncodedExponent) > 0
       THEN DecodeResult(NilValue, first.byteCount, "ExponentTooBig")
       ELSE DecodeCoefficient(src, first, is32)

Decode(src, is32) ==
    IF Len(src) = 0 THEN DecodeResult(NilValue, 0, "ErrorIncomplete")
    ELSE IF DecodeSpecial(src).err = "nil" THEN DecodeSpecial(src)
    ELSE DecodeFields(src, is32)

\* ------------------------------------------------------------------------
\* src/dfloat.go: DFloat, an int32 exponent with an int64 coefficient
\* ------------------------------------------------------------------------

ExpSpecial == MinInt32

DFloat(exponent, coefficient) == [Exponent |-> exponent, Coefficient |-> coefficient]

dfloatZero == DFloat(0, Int64(FALSE, <<>>))
dfloatNegativeZero == DFloat(ExpSpecial, Int64(FALSE, <<>>))
dfloatInfinity == DFloat(ExpSpecial, Int64(FALSE, <<1>>))
dfloatNegativeInfinity == DFloat(ExpSpecial, Int64(FALSE, <<5>>))
dfloatNaN == DFloat(ExpSpecial, Int64(FALSE, <<2>>))
dfloatSignalingNaN == DFloat(ExpSpecial, Int64(FALSE, <<6>>))

\* Go's x++ on int32
Inc32(x) == IF x = MaxInt32 THEN MinInt32 ELSE x + 1

\* an integer of either sign as [neg, mag]
SInt(n) ==
    IF n = MinInt32 THEN Int64(TRUE, Pow2(31))
    ELSE IF n < 0 THEN Int64(TRUE, FromInt(-n))
    ELSE Int64(FALSE, FromInt(n))

\* a + b on int64 values far from the ends of the range
SAdd(a, b) ==
    IF a.neg = b.neg THEN Int64(a.neg, Add(a.mag, b.mag))
    ELSE IF Cmp(a.mag, b.mag) >= 0 THEN Int64(a.neg, Sub(a.mag, b.mag))
    ELSE Int64(b.neg, Sub(b.mag, a.mag))

\* Go's int32(x) of an int64 x
Int32Of(c) == IF c.neg THEN ToInt32(Sub(Two64, c.mag)) ELSE ToInt32(c.mag)

RECURSIVE minimizeLoop(_, _)
\* the loop of minimized(): divide by 10 while nothing is lost, exponent++
minimizeLoop(exponent, mag) ==
    IF ModSmall(mag, 10) # 0 THEN [Exponent |-> exponent, mag |-> mag]
    ELSE LET coeff == DivSmall(mag, 10)
         IN IF Len(coeff) >= 0 THEN minimizeLoop(Inc32(exponent), coeff)
            ELSE [Exponent |-> exponent, mag |-> mag]

\* minimized() without the zero case: a zero coefficient keeps its exponent
minimizedKeepZeroExponent(d) ==
    IF d.Exponent = ExpSpecial \/ d.Coefficient.mag = <<>> THEN d
    ELSE LET m == minimizeLoop(d.Exponent, d.Coefficient.mag)
         IN DFloat(m.Exponent, Int64(d.Coefficient.neg, m.mag))

minimized(d) ==
    IF d.Exponent = ExpSpecial THEN d
    ELSE IF d.Coefficient.mag = <<>> THEN DFloat(0, d.Coefficient)
    ELSE LET m == minimizeLoop(d.Exponent, d.Coefficient.mag)
         IN DFloat(m.Exponent, Int64(d.Coefficient.neg, m.mag))

\* what a constructor hands back: err is "nil", "error" (an error value) or
\* "panic" (the call does not return)
Converted(result, err) == [result |-> result, err |-> err]

DFloatValue(exponent, coefficient) ==
    Converted(minimized(DFloat(exponent, coefficient)), "nil")

\* DFloatFromUInt dropping the last digit without rounding
DFloatFromUIntTruncating(value) ==
    IF Cmp(value, MaxInt64) <= 0 THEN DFloatValue(0, ToInt64(value))
    ELSE DFloatValue(1, ToInt64(DivSmall(value, 10)))

DFloatFromUInt(value) ==
    IF Cmp(value, MaxInt64) <= 0 THEN DFloatValue(0, ToInt64(value))
    ELSE LET remainder == ModSmall(value, 10)
             quotient == DivSmall(value, 10)
             roundUp == remainder > 5 \/ (remainder = 5 /\ ModSmall(quotient, 2) = 1)
         IN DFloatValue(1, ToInt64(IF roundUp THEN U64(MulAdd(quotient, 1, 1))
                                   ELSE quotient))

\* ------------------------------------------------------------------------
\* src/dfloat.go: decodeFromString.  A string is the sequence of its bytes.
\* ------------------------------------------------------------------------

chPlus == 43
chMinus == 45
chDot == 46
chZero == 48
chNine == 57
chUpperE == 69
chLowerE == 101

\* a comparison of the keyword as it is spelled
ToLowerIdentity(str) == str

\* strings.ToLower on ASCII
ToLower(str) ==
    [i \in 1..Len(str) |-> IF str[i] >= 65 /\ str[i] <= 90 THEN str[i] + 32 ELSE str[i]]

strInf == <<105, 110, 102>>
strInfinity == <<105, 110, 102, 105, 110, 105, 116, 121>>
strNan == <<110, 97, 110>>
strSnan == <<115, 110, 97, 110>>

exponentCap == FromInt(MaxInt32)

\* digitsMax[n]: n nines
digitsMax(n) == [i \in 1..n |-> 9]

\* a significandMax that leaves significantDigits aside
significandMaxUnlimited(significantDigits) == MaxInt64

\* significandMax for a significantDigits argument
significandMaxOf(significantDigits) ==
    IF significantDigits <= 0 \/ significantDigits > 19 THEN MaxInt64
    ELSE FromDigits(digitsMax(significantDigits))

\* the variables the closures of decodeFromString share
ParseState(significand, cutoff, fractional, exponent, rounded, firstRounded, err) ==
    [significand |-> significand, cutoffDigitCount |-> cutoff,
     fractionalDigitCount |-> fractional, exponent |-> exponent,
     rounded |-> rounded, firstRounded |-> firstRounded, err |-> err]

isDigit(ch) == ch >= chZero /\ ch <= chNine

RECURSIVE exponentDigits(_, _, _)
\* the digit loop of decodeExponent: [mag, err]
exponentDigits(acc, str, i) ==
    IF i > Len(str) THEN [mag |-> acc, err |-> "nil"]
    ELSE IF ~isDigit(str[i]) THEN [mag |-> acc, err |-> "error"]
    ELSE LET next == MulAdd(acc, 10, str[i] - chZero)
         IN IF Cmp(next, exponentCap) > 0 THEN [mag |-> next, err |-> "error"]
            ELSE exponentDigits(next, str, i + 1)

\* str[0] of an empty string is an index out of range
decodeExponent(p, str) ==
    IF str = <<>> THEN [p EXCEPT !.err = "panic"]
    ELSE LET signed == str[1] = chMinus \/ str[1] = chPlus
             r == exponentDigits(<<>>, IF signed THEN Tail(str) ELSE str, 1)
         IN IF r.err # "nil" THEN [p EXCEPT !.err = r.err]
            ELSE [p EXCEPT !.exponent = Int64(str[1] = chMinus, r.mag)]

\* if firstRounded || rounded == 5 { rounded += digit; firstRounded = false }
roundStep(p, ch) ==
    IF p.firstRounded \/ p.rounded = 5
    THEN [p EXCEPT !.rounded = @ + (ch - chZero), !.firstRounded = FALSE]
    ELSE p

RECURSIVE decodeRoundedFractional(_, _, _)
decodeRoundedFractional(p, str, i) ==
    IF i > Len(str) THEN p
    ELSE IF str[i] = chLowerE \/ str[i] = chUpperE
    THEN decodeExponent(p, SubSeq(str, i + 1, Len(str)))
    ELSE IF ~isDigit(str[i]) THEN [p EXCEPT !.err = "error"]
    ELSE LET q == roundStep(p, str[i])
         IN IF q.err = "nil" THEN decodeRoundedFractional(q, str, i + 1) ELSE q

RECURSIVE decodeFractional(_, _, _, _)
decodeFractional(p, significandMax, str, i) ==
    IF i > Len(str) THEN p
    ELSE IF str[i] = chLowerE \/ str[i] = chUpperE
    THEN decodeExponent(p, SubSeq(str, i + 1, Len(str)))
    ELSE IF ~isDigit(str[i]) THEN [p EXCEPT !.err = "error"]
    ELSE LET nextSignificand == U64(MulAdd(p.significand, 10, str[i] - chZero))
         IN IF Cmp(nextSignificand, significandMax) > 0
            THEN decodeRoundedFractional(p, str, i)
            ELSE decodeFractional(
                     [p EXCEPT !.significand = nextSignificand,
                               !.fractionalDigitCount = @ + 1],
                     significandMax, str, i + 1)

RECURSIVE decodeRounded(_, _, _)
decodeRounded(p, str, i) ==
    IF i > Len(str) THEN p
    ELSE IF str[i] = chDot THEN decodeRoundedFractional(p, str, i + 1)
    ELSE IF str[i] = chLowerE \/ str[i] = chUpperE
    THEN decodeExponent(p, SubSeq(str, i + 1, Len(str)))
    ELSE IF ~isDigit(str[i]) THEN [p EXCEPT !.err = "error"]
    ELSE LET q == [roundStep(p, str[i]) EXCEPT !.cutoffDigitCount = @ + 1]
         IN IF q.err = "nil" THEN decodeRounded(q, str, i + 1) ELSE q

RECURSIVE decodeSignificand(_, _, _, _)
decodeSignificand(p, significandMax, str, i) ==
    IF i > Len(str) THEN p
    ELSE IF str[i] = chDot THEN decodeFractional(p, significandMax, str, i + 1)
    ELSE IF str[i] = chLowerE \/ str[i] = chUpperE
    THEN decodeExponent(p, SubSeq(str, i + 1, Len(str)))
    ELSE IF ~isDigit(str[i]) THEN [p EXCEPT !.err = "error"]
    ELSE LET nextSignificand == U64(MulAdd(p.significand, 10, str[i] - chZero))
         IN IF Cmp(nextSignificand, significandMax) > 0
            THEN decodeRounded(p, str, i)
            ELSE decodeSignificand([p EXCEPT !.significand = nextSignificand],
                                   significandMax, str, i + 1)

\* decodeFromString after the closures ran without error: round, apply the
\* digit counts to the exponent, narrow to int64 and int32, minimize
finishDecode(p, negative, err) ==
    LET roundUp == p.rounded > 5
                   \/ (p.rounded = 5 /\ ModSmall(p.significand, 2) = 1)
        significand == IF roundUp THEN U64(MulAdd(p.significand, 1, 1))
                       ELSE p.significand
        exponent == SAdd(SAdd(p.exponent, SInt(p.cutoffDigitCount)),
                         SInt(-p.fractionalDigitCount))
        coefficient == IF negative THEN Neg64(ToInt64(significand))
                       ELSE ToInt64(significand)
    IN IF significand = <<>> /\ negative THEN Converted(dfloatNegativeZero, "nil")
       ELSE Converted(minimized(DFloat(Int32Of(exponent), coefficient)), err)

decodeFromString(value, significantDigits) ==
    IF Len(value) < 1 THEN Converted(dfloatZero, "nil")
    ELSE LET negative == value[1] = chMinus
             str == IF negative THEN Tail(value) ELSE value
             word == IF str # <<>> /\ str[1] > chNine THEN ToLower(str) ELSE <<>>
             p0 == ParseState(<<>>, 0, 0, Int64(FALSE, <<>>), 0, TRUE, "nil")
             p == decodeSignificand(p0, significandMaxOf(significantDigits), str, 1)
         IN IF str = <<>> THEN Converted(dfloatZero, "panic")
            ELSE IF word = strInf \/ word = strInfinity
            THEN Converted(IF negative THEN dfloatNegativeInfinity
                           ELSE dfloatInfinity, "nil")
            ELSE IF word = strNan
            THEN IF negative THEN Converted(dfloatZero, "error")
                 ELSE Converted(dfloatNaN, "nil")
            ELSE IF word = strSnan
            THEN IF negative THEN Converted(dfloatZero, "error")
                 ELSE Converted(dfloatSignalingNaN, "nil")
            ELSE IF p.err # "nil" THEN Converted(dfloatZero, p.err)
            ELSE finishDecode(p, negative,
                              IF str[1] > chNine THEN "error" ELSE "nil")

DFloatFromString(str) == decodeFromString(str, 0)

\* ------------------------------------------------------------------------
\* src/dfloat.go: conversions from apd.Decimal, big.Int and float64
\* ------------------------------------------------------------------------

RECURSIVE ToDigits(_)
\* the decimal digits of a natural, most significant first (none for 0)
ToDigits(s) ==
    IF s = <<>> THEN <<>>
    ELSE LET q == DivSmall(s, 10)
         IN IF Len(q) >= 0 THEN ToDigits(q) \o <<ModSmall(s, 10)>> ELSE <<>>

\* digits as the bytes of a string
DigitChars(ds) == [i \in 1..Len(ds) |-> chZero + ds[i]]

\* strconv.AppendInt of a magnitude
IntChars(mag) == IF mag = <<>> THEN <<chZero>> ELSE DigitChars(ToDigits(mag))

\* apd's fmtE: d.ddd, 'e', the sign and the adjusted exponent
apdFmtE(value, digits) ==
    LET adj == SAdd(SInt(value.Exponent), SInt(Len(digits) - 1))
    IN <<digits[1]>>
       \o (IF Len(digits) > 1 THEN <<chDot>> \o Tail(digits) ELSE <<>>)
       \o <<chLowerE, IF adj.neg THEN chMinus ELSE chPlus>>
       \o IntChars(adj.mag)

\* apd's fmtF for an exponent <= 0
apdFmtF(value, digits) ==
    LET left == -value.Exponent - Len(digits)
    IN IF value.Exponent = 0 THEN digits
       ELSE IF left >= 0
       THEN <<chZero, chDot>> \o [i \in 1..left |-> chZero] \o digits
       ELSE SubSeq(digits, 1, -left) \o <<chDot>>
            \o SubSeq(digits, 1 - left, Len(digits))

\* apd.Decimal.Text('g') of a finite non-zero value
apdText(value) ==
    LET digits == DigitChars(ToDigits(value.Coeff))
        plain == value.Exponent <= 0 /\ value.Exponent + (Len(digits) - 1) >= -6
    IN (IF value.Negative THEN <<chMinus>> ELSE <<>>)
       \o (IF plain THEN apdFmtF(value, digits) ELSE apdFmtE(value, digits))

\* a parse error of the text is the panic "BUG: Could not parse"
mustParse(r) == IF r.err = "nil" THEN r ELSE Converted(r.result, "panic")

DFloatFromAPD(value) ==
    IF apdIsZero(value)
    THEN Converted(IF value.Negative THEN dfloatNegativeZero ELSE dfloatZero, "nil")
    ELSE IF value.Form = "Infinite"
    THEN Converted(IF value.Negative THEN dfloatNegativeInfinity
                   ELSE dfloatInfinity, "nil")
    ELSE IF value.Form = "NaN" THEN Converted(dfloatNaN, "nil")
    ELSE IF value.Form = "NaNSignaling" THEN Converted(dfloatSignalingNaN, "nil")
    ELSE IF Cmp(value.Coeff, MaxInt64) <= 0
    THEN LET d == minimized(DFloat(value.Exponent, Int64(FALSE, value.Coeff)))
         IN Converted(IF value.Negative THEN DFloat(d.Exponent, Neg64(d.Coefficient))
                      ELSE d, "nil")
    ELSE mustParse(DFloatFromString(apdText(value)))

\* apd.NewWithBigInt(value, exponent) for a big.Int [neg, mag]
apdNewWithBigInt(value, exponent) ==
    Decimal("Finite", value.neg /\ value.mag # <<>>, exponent, value.mag)

\* big.Int.IsInt64
isInt64(value) ==
    IF value.neg THEN Cmp(value.mag, Two63) <= 0 ELSE Cmp(value.mag, MaxInt64) <= 0

\* big.Int.IsUint64
isUint64(value) == ~value.neg /\ Cmp(value.mag, MaxUint64) <= 0

DFloatFromBigInt(value) ==
    IF isInt64(value) THEN DFloatValue(0, value)
    ELSE IF isUint64(value) THEN DFloatFromUInt(value.mag)
    ELSE DFloatFromAPD(apdNewWithBigInt(value, 0))

\* A float64 is [class, bits, text]: its class ("zero", "negzero", "inf",
\* "neginf", "nan", "finite", or "parsed" for what strconv.ParseFloat made of
\* a text), for a NaN its 64 bits, and for a finite non-zero value the text
\* strconv.FormatFloat(value, 'g', -1, 64) gives for it (for a parsed one
\* the text it was parsed from)
Float64(class, bits, text) == [class |-> class, bits |-> bits, text |-> text]

\* quietBit = 1 << quietShift
quietShift == 50

\* the shift of the bit IEEE 754 gives this role, the top bit of the mantissa
quietShiftIEEE == 51

quietBit == Pow2(quietShift)

\* bits & bit != 0 for a power of two bit
isSet(bits, bit) == ModSmall(DivSmall(ShiftRight(bits, 7 * (Len(bit) - 1)), bit[Len(bit)]), 2) = 1

\* bits | bit and bits & ^bit
orBit(bits, bit) == IF isSet(bits, bit) THEN bits ELSE Add(bits, bit)
andNotBit(bits, bit) == IF isSet(bits, bit) THEN Sub(bits, bit) ELSE bits

DFloatFromFloat64(value, significantDigits) ==
    IF value.class = "zero" THEN Converted(dfloatZero, "nil")
    ELSE IF value.class = "negzero" THEN Converted(dfloatNegativeZero, "nil")
    ELSE IF value.class = "inf" THEN Converted(dfloatInfinity, "nil")
    ELSE IF value.class = "neginf" THEN Converted(dfloatNegativeInfinity, "nil")
    ELSE IF value.class = "nan"
    THEN Converted(IF isSet(value.bits, quietBit) THEN dfloatNaN
                   ELSE dfloatSignalingNaN, "nil")
    ELSE mustParse(decodeFromString(value.text, significantDigits))

\* ------------------------------------------------------------------------
\* src/compact-float.go: EncodeFloat64 and extractFloat
\* ------------------------------------------------------------------------

MaxEncodeLength == 10

\* quietBit of compact-float.go: 1 << 51
codecQuietBit == Pow2(51)

\* x * 10 on Go's int, 32 bits wide on a 32-bit platform; x is [neg, mag]
timesTenInt(x, is32) ==
    LET p == Int64(x.neg, MulAdd(x.mag, 10, 0))
    IN IF is32 THEN SInt(ToInt32(IF p.neg THEN Sub(Pow2(42), p.mag) ELSE p.mag))
       ELSE p

\* the variables of extractFloat's loop
ExtractState(dot, exp, rnd, expStr, expSign, count, rounded, divider, last, sig, e) ==
    [encounteredDot |-> dot, encounteredExp |-> exp, isRounding |-> rnd,
     exponentFromString |-> expStr, exponentSign |-> expSign,
     digitCount |-> count, rounded |-> rounded, roundedDivider |-> divider,
     lastSigDigit |-> last, significand |-> sig, exponent |-> e]

\* one turn of the loop over stringRep
extractStep(st, ch, significantDigits, is32) ==
    IF ch = chDot THEN [st EXCEPT !.encounteredDot = TRUE]
    ELSE IF ch = chLowerE THEN [st EXCEPT !.encounteredExp = TRUE]
    ELSE IF ch = chMinus THEN [st EXCEPT !.exponentSign = -1]
    ELSE IF ch = chPlus THEN [st EXCEPT !.exponentSign = 1]
    ELSE LET nextDigit == ch - chZero
             digitCount == IF st.digitCount > 1 \/ nextDigit > 0
                           THEN st.digitCount + 1 ELSE st.digitCount
             cut == significantDigits > 0 /\ digitCount >= significantDigits
         IN IF st.encounteredExp
            THEN [st EXCEPT !.exponentFromString = @ * 10 + nextDigit]
            ELSE IF st.isRounding
            THEN [st EXCEPT !.rounded = MulAdd(@, 10, nextDigit),
                            !.roundedDivider = timesTenInt(@, is32)]
            ELSE [st EXCEPT !.digitCount = digitCount,
                            !.lastSigDigit = IF cut THEN nextDigit ELSE @,
                            !.isRounding = cut,
                            !.significand = MulAdd(@, 10, nextDigit),
                            !.exponent = IF st.encounteredDot THEN @ - 1 ELSE @]

RECURSIVE extractLoop(_, _, _, _, _)
extractLoop(st, stringRep, i, significantDigits, is32) ==
    IF i > Len(stringRep) THEN st
    ELSE LET next == extractStep(st, stringRep[i], significantDigits, is32)
         IN IF next.digitCount >= 0
            THEN extractLoop(next, stringRep, i + 1, significantDigits, is32)
            ELSE st

\* float64(rounded) / float64(roundedDivider) against 0 and 0.5: "zero",
\* "above", "below" or "half".  The quotient is compared exactly, which is
\* what the float64 division gives unless it lies within 10^-15 of one half.
fractionalOf(rounded, roundedDivider) ==
    IF rounded = <<>> THEN "zero"
    ELSE IF roundedDivider.neg THEN "below"
    ELSE LET c == Cmp(MulAdd(rounded, 2, 0), roundedDivider.mag)
         IN IF c > 0 THEN "above" ELSE IF c < 0 THEN "below" ELSE "half"

\* extractFloat(value, significantDigits) for the text fmt.Sprintf("%v", value)
\* of a finite value other than zero: [exponent, significand]
extractFloat(stringRep, significantDigits, is32) ==
    LET negative == stringRep[1] = chMinus
        st == extractLoop(ExtractState(FALSE, FALSE, FALSE, 0, 1, 0, <<>>,
                                       Int64(FALSE, <<1>>), 0, <<>>, 0),
                          stringRep, IF negative THEN 2 ELSE 1,
                          significantDigits, is32)
        significand == Int64(negative, st.significand)
        fractional == fractionalOf(st.rounded, st.roundedDivider)
        up == fractional = "above" \/ (fractional = "half" /\ st.lastSigDigit % 2 = 1)
    IN [exponent |-> st.exponent + st.exponentFromString * st.exponentSign,
        significand |-> IF fractional = "zero" THEN significand
                        ELSE IF up THEN SAdd(significand, SInt(1))
                        ELSE SAdd(significand, SInt(-1))]

\* abs32: the most negative value stays as it is
abs32(x) == IF x < 0 THEN Neg32(x) ELSE x

\* the two fields EncodeFloat64 writes for what extractFloat returned
float64Fields(x) ==
    LET exponentSign == IF x.exponent < 0 THEN 1 ELSE 0
        significandSign == IF x.significand.neg THEN 1 ELSE 0
    IN [exponentField |->
            MulAdd(U64(ShiftLeft(Uint64FromInt32(abs32(x.exponent)), 2)), 1,
                   2 * exponentSign + significandSign),
        significandField |-> x.significand.mag]

EncodeFloat64(value, significantDigits, dstLen, is32) ==
    IF value.class = "zero" THEN encodeZero(dstLen)
    ELSE IF value.class = "negzero" THEN encodeNegativeZero(dstLen)
    ELSE IF value.class = "inf" THEN encodeInfinity(dstLen)
    ELSE IF value.class = "neginf" THEN encodeNegativeInfinity(dstLen)
    ELSE IF value.class = "nan"
    THEN IF isSet(value.bits, codecQuietBit) THEN encodeQuietNan(dstLen)
         ELSE encodeSignalingNan(dstLen)
    ELSE LET f == float64Fields(extractFloat(value.text, significantDigits, is32))
             first == ulebEncode(f.exponentField, dstLen)
             offset == first.bytesEncoded
             second == ulebEncode(f.significandField, dstLen - offset)
         IN IF ~first.ok THEN EncodeResult(first.bytesEncoded, FALSE, <<>>)
            ELSE IF ~second.ok
            THEN EncodeResult(second.bytesEncoded, FALSE, first.bytes)
            ELSE EncodeResult(second.bytesEncoded + offset, TRUE,
                              first.bytes \o second.bytes)

\* ------------------------------------------------------------------------
\* src/dfloat.go: conversions of a DFloat to integers and to apd.Decimal
\* ------------------------------------------------------------------------

\* len(exponentMultipliers): 10^0 .. 10^19
exponentMultipliersLen == 20

\* Go's uint64(x) of an int64 x
Uint64Of(c) == IF c.neg THEN Sub(Two64, c.mag) ELSE c.mag

RECURSIVE mulPow10(_, _)
\* u * exponentMultipliers[e] in uint64 arithmetic
mulPow10(u, e) ==
    IF e = 0 THEN u
    ELSE LET next == U64(MulAdd(u, 10, 0))
         IN IF Len(next) >= 0 THEN mulPow10(next, e - 1) ELSE u

RECURSIVE divPow10(_, _)
\* u / exponentMultipliers[e]
divPow10(u, e) ==
    IF e = 0 THEN u
    ELSE LET next == DivSmall(u, 10)
         IN IF Len(next) >= 0 THEN divPow10(next, e - 1) ELSE u

\* DFloat.Int (Int names the set of integers here): int64 multiplication
\* wraps, int64 division truncates
DFloatInt(d) ==
    IF d.Exponent < 0 THEN Converted(Int64(FALSE, <<>>), "error")
    ELSE IF d.Exponent >= exponentMultipliersLen - 1
    THEN Converted(Int64(FALSE, <<>>), "error")
    ELSE LET result == ToInt64(mulPow10(Uint64Of(d.Coefficient), d.Exponent))
             quotient == Int64(result.neg, divPow10(result.mag, d.Exponent))
         IN IF result.neg \/ quotient # d.Coefficient
            THEN Converted(Int64(FALSE, <<>>), "error")
            ELSE Converted(result, "nil")

\* DFloat.Uint
Uint(d) ==
    IF d.Exponent < 0 THEN Converted(<<>>, "error")
    ELSE IF d.Exponent >= exponentMultipliersLen THEN Converted(<<>>, "error")
    ELSE LET u == Uint64Of(d.Coefficient)
             result == mulPow10(u, d.Exponent)
         IN IF divPow10(result, d.Exponent) # u THEN Converted(<<>>, "error")
            ELSE Converted(result, "nil")

\* BigInt() losing the coefficient's sign
BigIntMagnitude(d) ==
    IF d.Exponent < 0 THEN Converted(Int64(FALSE, <<>>), "error")
    ELSE Converted(Int64(FALSE, TimesTen(d.Coefficient.mag, d.Exponent)), "nil")

\* DFloat.BigInt: a big.Int is [neg, mag]; the error comes with a nil *big.Int
BigInt(d) ==
    IF d.Exponent < 0 THEN Converted(Int64(FALSE, <<>>), "error")
    ELSE Converted(Int64(d.Coefficient.neg,
                         TimesTen(d.Coefficient.mag, d.Exponent)), "nil")

\* DFloat.APD
APD(d) ==
    IF d = dfloatNegativeZero THEN Decimal("Finite", TRUE, 0, <<>>)
    ELSE IF d = dfloatInfinity THEN Decimal("Infinite", FALSE, 0, <<>>)
    ELSE IF d = dfloatNegativeInfinity THEN Decimal("Infinite", TRUE, 0, <<>>)
    ELSE IF d = dfloatNaN THEN Decimal("NaN", FALSE, 0, <<>>)
    ELSE IF d = dfloatSignalingNaN THEN Decimal("NaNSignaling", FALSE, 0, <<>>)
    ELSE apdNew(d.Coefficient, d.Exponent)

\* math.Float64bits(math.NaN()): 0x7FF8000000000001
uvnan == Add(Add(Sub(Pow2(63), Pow2(52)), Pow2(51)), <<1>>)

\* the first 19 digits of the largest decimal that still rounds to a float64
floatLimitDigits == <<1,7,9,7,6,9,3,1,3,4,8,6,2,3,1,5,8,0,7>>

\* strconv.ParseFloat answers ErrRange: the text of value (a coefficient of
\* at most 19 digits) lies beyond the float64 range
parseOverflows(value) ==
    LET ds == ToDigits(value.Coeff)
        adj == SAdd(SInt(value.Exponent), SInt(Len(ds) - 1))
        lead == FromDigits(ds \o [i \in 1..(19 - Len(ds)) |-> 0])
    IN /\ ~adj.neg
       /\ \/ Cmp(adj.mag, FromInt(308)) > 0
          \/ adj.mag = FromInt(308) /\ Cmp(lead, FromDigits(floatLimitDigits)) > 0

\* DFloat.Float of a special value or a number other than zero: a range
\* error of ParseFloat is the panic "BUG: error decoding stringified DFloat"
Float(d) ==
    IF d = dfloatZero THEN Converted(Float64("zero", <<>>, <<>>), "nil")
    ELSE IF d = dfloatNegativeZero THEN Converted(Float64("negzero", <<>>, <<>>), "nil")
    ELSE IF d = dfloatInfinity THEN Converted(Float64("inf", <<>>, <<>>), "nil")
    ELSE IF d = dfloatNegativeInfinity
    THEN Converted(Float64("neginf", <<>>, <<>>), "nil")
    ELSE IF d = dfloatNaN
    THEN Converted(Float64("nan", orBit(uvnan, quietBit), <<>>), "nil")
    ELSE IF d = dfloatSignalingNaN
    THEN Converted(Float64("nan", andNotBit(uvnan, quietBit), <<>>), "nil")
    ELSE Converted(Float64("parsed", <<>>, apdText(APD(d))),
                   IF parseOverflows(APD(d)) THEN "panic" ELSE "nil")

\* ------------------------------------------------------------------------
\* src/dfloat.go: the special values and the classification predicates
\* ------------------------------------------------------------------------

CoeffInfinity == 1
CoeffNan == 2

Zero == dfloatZero
NegativeZero == dfloatNegativeZero
Infinity == dfloatInfinity
NegativeInfinity == dfloatNegativeInfinity
QuietNaN == dfloatNaN
SignalingNaN == dfloatSignalingNaN

\* c & bit != 0 for an int64 c and a power of two bit
hasBit(c, bit) == ModSmall(DivSmall(Uint64Of(c), bit), 2) = 1

IsSpecial(d) == d.Exponent = ExpSpecial

IsZero(d) == d.Coefficient.mag = <<>>

\* IsInfinity() testing the bit that tells the negative infinity apart
IsInfinityBit2(d) == IsSpecial(d) /\ hasBit(d.Coefficient, 4)

IsInfinity(d) == IsSpecial(d) /\ hasBit(d.Coefficient, CoeffInfinity)

IsNan(d) == IsSpecial(d) /\ hasBit(d.Coefficient, CoeffNan)

IsNegativeZero(d) == d = dfloatNegativeZero

IsNegativeInfinity(d) == d = dfloatNegativeInfinity

IsSignalingNan(d) == d = dfloatSignalingNaN

\* ------------------------------------------------------------------------
\* The values and byte sequences the operations are driven with
\* ------------------------------------------------------------------------

\* trailing zero bytes appended to an encoding
MaxPad == 2
\* small coefficients 1..MaxSmall next to the boundary coefficients below
MaxSmall == 3
\* room in the destination buffer handed to Encode
BufferLen == 32
\* the short destination buffers handed to Encode: 0..MaxDst bytes
MaxDst == 3

\* the destination sizes a caller passes, MaxEncodeLength among them
DstLens == (0..MaxDst) \cup {MaxEncodeLength, BufferLen}

\* exponents an apd.Decimal can carry (int32); only MinInt32 is outside the
\* range DFloat documents, -0x7fffffff .. 0x7fffffff
Exponents == {0, 1, -1, 2, 4994, -5000, MaxInt32, -MaxInt32, MinInt32}

SmallCoefficients == {FromInt(n) : n \in 1..MaxSmall}

\* coefficient magnitudes around every length and width boundary
BoundaryCoefficients ==
    {FromInt(10), FromInt(12), FromInt(15), FromInt(9445283), FromInt(127), FromInt(128),
     FromInt(16383), FromInt(16384),
     MaxInt64, Sub(MaxInt64, <<1>>), Two63, Add(Two63, <<1>>),
     MaxUint64, Two64, Add(Two64, <<1>>), Sub(Pow2(70), <<1>>),
     FromDigits(<<9,4,4,5,2,8,3,7,2,0,6,2,8,5,4,6,6,3,4,5,9,9,8,3>>)}

Coefficients == SmallCoefficients \cup BoundaryCoefficients

SpecialValues ==
    {Decimal("Finite", FALSE, 0, <<>>), Decimal("Finite", TRUE, 0, <<>>),
     Decimal("NaN", FALSE, 0, <<>>), Decimal("NaNSignaling", FALSE, 0, <<>>),
     Decimal("Infinite", FALSE, 0, <<>>), Decimal("Infinite", TRUE, 0, <<>>)}

\* zeros written with a non-zero exponent (apd keeps the exponent of a zero)
ScaledZeros == {Decimal("Finite", n, e, <<>>) : n \in BOOLEAN, e \in {2, -1}}

NormalValues ==
    {Decimal("Finite", n, e, c) : n \in BOOLEAN, e \in Exponents, c \in Coefficients}

ApdInputs == SpecialValues \cup ScaledZeros \cup NormalValues

\* exponent fields around the 33-bit limit Decode enforces
CraftedFields ==
    {FromInt(n) : n \in 0..7}
    \cup {Sub(Pow2(33), <<1>>), Sub(Pow2(33), <<2>>),
          Sub(Pow2(33), <<3>>), Sub(Pow2(33), <<4>>),
          Pow2(33), Add(Pow2(33), <<3>>), Add(Pow2(34), <<2>>),
          Sub(Pow2(35), <<1>>), Two63, MaxUint64, Two64, Pow2(70)}

CraftedCoefficients == {<<>>, <<1>>, MaxInt64, Two63, Two64}

CraftedBytes == {0, 1, 2, 3, 127, 128, 129, 130, 131, 255}

\* byte sequences handed to Decode that no Encode call produced
CraftedInputs ==
    {ulebBytes(f) \o ulebBytes(c) : f \in CraftedFields, c \in CraftedCoefficients}
    \cup {ulebBytes(f) : f \in CraftedFields}
    \cup {<<b>> : b \in CraftedBytes}
    \cup {<<a, b>> : a \in CraftedBytes, b \in CraftedBytes}
    \cup {<<a, 0, b>> : a \in CraftedBytes, b \in CraftedBytes}

Zeros(k) == [i \in 1..k |-> 0]

\* exponents handed to DFloatValue
ValueExponents == {0, 1, -1, 12, 100, MaxInt32 - 1, MaxInt32, -MaxInt32, ExpSpecial}

\* int64 coefficients handed to DFloatValue
ValueCoefficients ==
    {Int64(n, FromInt(c)) : n \in BOOLEAN, c \in {0, 1, 3, 7, 12, 30, 100, 120, 1000}}
    \cup {Int64(FALSE, MaxInt64), Int64(TRUE, MaxInt64), Int64(TRUE, Two63),
          Int64(FALSE, FromDigits(<<5,0,0,0,0,0,0,0,0,0,0,0,0,0,0,0,0,0,0>>))}

\* uint64 values around 2^63 and 2^64, with every kind of last digit
UIntInputs ==
    {<<>>, FromInt(1), FromInt(120), FromInt(1000), MaxInt64, Two63,
     Add(Two63, <<1>>), Add(Two63, <<2>>), Add(Two63, <<7>>), Add(Two63, <<17>>),
     Add(Two63, <<12>>), MaxUint64, Sub(MaxUint64, <<5>>), Sub(MaxUint64, <<10>>)}

\* big.Int values of both signs, within and beyond 64 bits
BigIntInputs ==
    {Int64(n, m) : n \in BOOLEAN,
                   m \in UIntInputs \cup {Two64, Add(Two64, <<1>>),
                                          Sub(Pow2(70), <<1>>),
                                          FromDigits(<<2,0,0,0,0,0,0,0,0,0,0,0,0,0,0,0,0,0,0,0>>)}}

\* extra digits appended to an 18-digit prefix
MaxTail == 2

\* 18-digit prefixes: next to 2^63 / 10, next to 2^64 / 10, and round ones
LiteralPrefixes ==
    {<<9,2,2,3,3,7,2,0,3,6,8,5,4,7,7,5,8,0>>,
     <<1,8,4,4,6,7,4,4,0,7,3,7,0,9,5,5,1,6>>,
     <<2,0,0,0,0,0,0,0,0,0,0,0,0,0,0,0,0,0>>,
     <<1,0,0,0,0,0,0,0,0,0,0,0,0,0,0,0,0,0>>,
     <<9,9,9,9,9,9,9,9,9,9,9,9,9,9,9,9,9,9>>}

TailDigits == {0, 1, 5, 6, 7, 8, 9}

LiteralTails == UNION {[1..n -> TailDigits] : n \in 1..MaxTail}

\* integer literals of 19 digits and more, with and without a sign
LongLiterals ==
    {s \o DigitChars(h \o t) : s \in {<<>>, <<chMinus>>},
                               h \in LiteralPrefixes, t \in LiteralTails}

\* literals of every shape decodeFromString tells apart, well formed or not
ShortLiterals ==
    {<<>>,  \* ""
     <<48>>,  \* "0"
     <<45, 48>>,  \* "-0"
     <<49>>,  \* "1"
     <<49, 46, 53>>,  \* "1.5"
     <<45, 49, 46, 50>>,  \* "-1.2"
     <<49, 50, 48>>,  \* "120"
     <<48, 46, 48, 48, 48>>,  \* "0.000"
     <<49, 50, 46, 53, 48, 101, 45, 49>>,  \* "12.50e-1"
     <<49, 101, 43, 53>>,  \* "1e+5"
     <<49, 69, 53>>,  \* "1E5"
     <<57, 46, 52, 52, 53, 50, 56, 51, 101, 43, 53, 48, 48, 48>>,  \* "9.445283e+5000"
     <<48, 46, 49, 101, 45, 50, 49, 52, 55, 52, 56, 51, 54, 52, 55>>,  \* "0.1e-2147483647"
     <<48, 46, 51, 101, 45, 50, 49, 52, 55, 52, 56, 51, 54, 52, 55>>,  \* "0.3e-2147483647"
     <<49, 48, 101, 50, 49, 52, 55, 52, 56, 51, 54, 52, 55>>,  \* "10e2147483647"
     <<49, 101, 50, 49, 52, 55, 52, 56, 51, 54, 52, 56>>,  \* "1e2147483648"
     <<57, 50, 50, 51, 51, 55, 50, 48, 51, 54, 56, 53, 52, 55, 55, 53, 56, 48, 55>>,  \* "9223372036854775807"
     <<45, 57, 50, 50, 51, 51, 55, 50, 48, 51, 54, 56, 53, 52, 55, 55, 53, 56, 48, 56>>,  \* "-9223372036854775808"
     <<57, 50, 50, 51, 51, 55, 50, 48, 51, 54, 56, 53, 52, 55, 55, 53, 56, 46, 48, 56>>,  \* "92233720368547758.08"
     <<57, 50, 50, 51, 51, 55, 50, 48, 51, 54, 56, 53, 52, 55, 55, 53, 56, 48, 56, 101, 53>>,  \* "9223372036854775808e5"
     <<57, 50, 50, 51, 51, 55, 50, 48, 51, 54, 56, 53, 52, 55, 55, 53, 56, 48, 55, 46, 53>>,  \* "9223372036854775807.5"
     <<57, 50, 50, 51, 51, 55, 50, 48, 51, 54, 56, 53, 52, 55, 55, 53, 56, 48, 54, 46, 53>>,  \* "9223372036854775806.5"
     <<49, 56, 52, 52, 54, 55, 52, 52, 48, 55, 51, 55, 48, 57, 53, 53, 49, 46, 54, 49, 54>>,  \* "18446744073709551.616"
     <<45>>,  \* "-"
     <<49, 101>>,  \* "1e"
     <<49, 101, 45>>,  \* "1e-"
     <<49, 46, 50, 46, 51>>,  \* "1.2.3"
     <<49, 120>>,  \* "1x"
     <<101, 53>>,  \* "e5"
     <<105, 110, 102>>,  \* "inf"
     <<45, 73, 110, 102, 105, 110, 105, 116, 121>>,  \* "-Infinity"
     <<78, 97, 78>>,  \* "NaN"
     <<115, 110, 97, 110>>,  \* "snan"
     <<45, 110, 97, 110>>,  \* "-nan"
     <<45, 115, 110, 97, 110>>,  \* "-snan"
     <<110, 97, 110, 111>>,  \* "nano"
     <<46>>,  \* "."
     <<45, 46>>,  \* "-."
     <<46, 101, 53>>,  \* ".e5"
     <<49, 101, 43>>,  \* "1e+"
     <<43, 49>>,  \* "+1"
     <<49, 101, 53, 120>>,  \* "1e5x"
     <<49, 45, 50>>,  \* "1-2"
     <<73, 110, 102>>,  \* "Inf"
     <<73, 78, 70, 73, 78, 73, 84, 89>>,  \* "INFINITY"
     <<45, 105, 110, 102>>,  \* "-inf"
     <<105, 110, 102, 105, 110, 105, 116, 121>>,  \* "infinity"
     <<110, 97, 110>>,  \* "nan"
     <<83, 78, 65, 78>>,  \* "SNAN"
     <<45, 78, 97, 78>>,  \* "-NaN"
     <<45, 83, 78, 97, 78>>,  \* "-SNaN"
     <<45, 48, 46, 48>>,  \* "-0.0"
     <<48, 101, 53>>,  \* "0e5"
     <<48, 48>>,  \* "00"
     <<45, 48, 101, 45, 55>>,  \* "-0e-7"
     <<48, 46, 48, 101, 45, 50, 49, 52, 55, 52, 56, 51, 54, 52, 55>>,  \* "0.0e-2147483647"
     <<45, 48, 46, 48, 48, 101, 43, 49, 50>>,  \* "-0.00e+12"
     <<48, 46, 101, 51>>,  \* "0.e3"
     <<105, 110, 102, 105, 110, 105, 116>>}  \* "infinit"

StringInputs == ShortLiterals \cup LongLiterals

\* strconv.FormatFloat(value, 'g', -1, 64) of some finite non-zero float64 values
Float64Texts ==
    {<<49>>,  \* "1"
     <<49, 46, 53>>,  \* "1.5"
     <<45, 49, 46, 50>>,  \* "-1.2"
     <<48, 46, 50>>,  \* "0.2"
     <<48, 46, 53, 57, 51, 53, 53, 53, 53>>,  \* "0.5935555"
     <<49, 52, 46, 55, 51, 52, 52, 53, 50, 49, 57, 49, 51, 52, 53, 52, 51>>,  \* "14.73445219134543"
     <<49, 46, 53, 57, 52, 51, 54, 53>>,  \* "1.594365"
     <<55, 46, 56, 57, 54, 51, 53, 48, 53, 56, 50, 50, 55, 52, 52, 54, 51, 53,
       101, 43, 57, 48>>,  \* "7.8963505822744635e+90"
     <<49, 48, 48, 48, 48, 48>>,  \* "100000"
     <<49, 101, 43, 48, 54>>,  \* "1e+06"
     <<49, 46, 50, 51, 52, 53, 54, 55, 56, 57, 101, 43, 48, 56>>,  \* "1.23456789e+08"
     <<48, 46, 48, 48, 48, 49>>,  \* "0.0001"
     <<49, 101, 45, 48, 53>>,  \* "1e-05"
     <<49, 101, 43, 49, 48, 48>>,  \* "1e+100"
     <<49, 46, 55, 57, 55, 54, 57, 51, 49, 51, 52, 56, 54, 50, 51, 49, 53, 55, 101, 43, 51, 48, 56>>,  \* "1.7976931348623157e+308"
     <<53, 101, 45, 51, 50, 52>>,  \* "5e-324"
     <<57, 46, 50, 50, 51, 51, 55, 50, 48, 51, 54, 56, 53, 52, 55, 55, 54, 101, 43, 49, 56>>,  \* "9.223372036854776e+18"
     <<45, 50, 46, 53, 101, 45, 49, 48>>,  \* "-2.5e-10"
     <<49, 46, 50, 51, 52, 53, 101, 43, 50, 48>>,  \* "1.2345e+20"
     <<50, 46, 53>>,  \* "2.5"
     <<48, 46, 48, 48, 48, 51, 53>>,  \* "0.00035"
     <<57, 46, 57, 57, 57, 53>>,  \* "9.9995"
     <<49, 50, 51, 52, 53, 54>>,  \* "123456"
     <<55, 46, 57, 52, 56, 49, 50, 101, 43, 49, 48, 48>>}  \* "7.94812e+100"

\* the bit patterns of NaNs: all exponent bits set and a mantissa other than
\* zero, here with every setting of the sign, of bits 51 and 50 and of bit 0
NanPatterns ==
    {Add(Add(Add(Add(Sub(Pow2(63), Pow2(52)), IF sign THEN Pow2(63) ELSE <<>>),
                 IF b51 THEN Pow2(51) ELSE <<>>),
             IF b50 THEN Pow2(50) ELSE <<>>),
         IF b0 THEN <<1>> ELSE <<>>) :
        sign \in BOOLEAN, b51 \in BOOLEAN, b50 \in BOOLEAN, b0 \in BOOLEAN}
    \ {Sub(Pow2(63), Pow2(52)), Sub(Pow2(64), Pow2(52))}

Float64Inputs ==
    {Float64(c, <<>>, <<>>) : c \in {"zero", "negzero", "inf", "neginf"}}
    \cup {Float64("nan", bits, <<>>) : bits \in NanPatterns}
    \cup {Float64("finite", <<>>, t) : t \in Float64Texts}

\* significantDigits arguments: none, few, and past the digitsMax table
SignificantDigits == {-1, 0, 1, 4, 6, 17, 19, 20}

\* the largest exponent BigInt() is driven with
MaxBigIntExponent == 20

\* exponents of the DFloat values the conversions are called on
DFloatExponents == {0, 1, 2, 5, 18, 19, 20, -1, -5, MaxInt32, -MaxInt32}

\* their coefficients: those of DFloatValue and some next to the int64 and
\* uint64 limits once scaled
DFloatCoefficients ==
    ValueCoefficients
    \cup {Int64(n, c) : n \in BOOLEAN,
                        c \in {FromInt(1234), FromInt(60340534),
                               FromDigits(<<1,8,4,4,6,7,4,4,0,7,3,7,0,9,5,5,1,6,1>>),
                               FromDigits(<<9,2,2,3,3,7,2,0,3,6,8,5,4,7,7,5,8,0>>),
                               FromDigits(<<9,2,2,3,3,7,2,0,3,6,8,5,4,7,7,5,8,1>>),
                               FromDigits(<<4,0,0,0,0,0,0,0,0,0,0,0,0,0,0,0,0,0,0>>)}}

\* DFloat values: the six special values and numbers, minimized or not
DFloatInputs ==
    {dfloatZero, dfloatNegativeZero, dfloatInfinity, dfloatNegativeInfinity,
     dfloatNaN, dfloatSignalingNaN}
    \cup {DFloat(e, c) : e \in DFloatExponents, c \in DFloatCoefficients}

\* the values Float() is called on: special values and numbers other than zero
FloatInputs ==
    {d \in DFloatInputs : d.Coefficient.mag # <<>> \/ d.Exponent = ExpSpecial}
    \cup {dfloatZero}

\* ------------------------------------------------------------------------
\* State
\* ------------------------------------------------------------------------

VARIABLES
    pc,      \* "idle", "encoded" (wire holds bytes to decode), "decoded", ...
    is32,    \* is32Bit(): the platform's word size, fixed for a run
    source,  \* the *apd.Decimal handed to Encode, or NilValue
    enc,     \* what Encode returned, with the bytes it wrote
    wire,    \* the bytes handed to Decode
    origin,  \* how wire came about: "encoded", "truncated", "padded", "crafted"
    dec,     \* what Decode returned
    call,    \* the DFloat constructor or conversion called and its arguments
    ret      \* what it returned

vars == <<pc, is32, source, enc, wire, origin, dec, call, ret>>

NoEncode == EncodeResult(0, FALSE, <<>>)
NoDecode == DecodeResult(NilValue, 0, "none")
NoCall == [op |-> "none"]
NoConverted == Converted(dfloatZero, "none")

Init ==
    /\ pc = "idle"
    /\ is32 \in BOOLEAN
    /\ source = NilValue
    /\ enc = NoEncode
    /\ wire = <<>>
    /\ origin = "none"
    /\ dec = NoDecode
    /\ call = NoCall
    /\ ret = NoConverted

\* a caller encodes value into a buffer of dstLen bytes
CallEncode(value, dstLen) ==
    /\ pc = "idle"
    /\ source' = value
    /\ enc' = Encode(value, dstLen)
    /\ wire' = enc'.bytes
    /\ origin' = "encoded"
    /\ call' = [op |-> "Encode", dstLen |-> dstLen]
    /\ pc' = IF enc'.ok THEN "encoded" ELSE "encodeFailed"
    /\ UNCHANGED <<is32, dec, ret>>

\* a caller encodes a float64 into a buffer of dstLen bytes
CallEncodeFloat64(value, significantDigits, dstLen) ==
    /\ pc = "idle"
    /\ call' = [op |-> "EncodeFloat64", value |-> value,
                significantDigits |-> significantDigits, dstLen |-> dstLen]
    /\ enc' = EncodeFloat64(value, significantDigits, dstLen, is32)
    /\ wire' = enc'.bytes
    /\ origin' = "float64"
    /\ pc' = IF enc'.ok THEN "encoded" ELSE "encodeFailed"
    /\ UNCHANGED <<is32, source, dec, ret>>

\* the reader holds only the first k bytes of the encoding
Truncate(k) ==
    /\ pc = "encoded" /\ origin = "encoded"
    /\ k < Len(wire)
    /\ wire' = SubSeq(wire, 1, k)
    /\ origin' = "truncated"
    /\ UNCHANGED <<pc, is32, source, enc, dec, call, ret>>

\* the encoding sits in a longer buffer, followed by k zero bytes
Pad(k) ==
    /\ pc = "encoded" /\ origin = "encoded"
    /\ wire' = wire \o Zeros(k)
    /\ origin' = "padded"
    /\ UNCHANGED <<pc, is32, source, enc, dec, call, ret>>

\* the reader is handed bytes from elsewhere
Craft(bytes) ==
    /\ pc = "idle"
    /\ wire' = bytes
    /\ origin' = "crafted"
    /\ pc' = "encoded"
    /\ UNCHANGED <<is32, source, enc, dec, call, ret>>

CallDecode ==
    /\ pc = "encoded"
    /\ dec' = Decode(wire, is32)
    /\ pc' = "decoded"
    /\ UNCHANGED <<is32, source, enc, wire, origin, call, ret>>

\* the value that was encoded and decoded is handed to DFloatFromAPD, to
\* compare the two results
CallDFloatFromAPDDecoded ==
    /\ pc = "decoded" /\ origin = "encoded"
    /\ dec.err = "nil"
    /\ call' = [op |-> "DFloatFromAPD", value |-> source]
    /\ ret' = DFloatFromAPD(source)
    /\ pc' = "bridged"
    /\ UNCHANGED <<is32, source, enc, wire, origin, dec>>

\* the DFloat constructors, each called on a fresh value
CallDFloatValue(exponent, coefficient) ==
    /\ pc = "idle"
    /\ call' = [op |-> "DFloatValue", exponent |-> exponent,
                coefficient |-> coefficient]
    /\ ret' = DFloatValue(exponent, coefficient)
    /\ pc' = "converted"
    /\ UNCHANGED <<is32, source, enc, wire, origin, dec>>

CallDFloatFromUInt(value) ==
    /\ pc = "idle"
    /\ call' = [op |-> "DFloatFromUInt", value |-> value]
    /\ ret' = DFloatFromUInt(value)
    /\ pc' = "converted"
    /\ UNCHANGED <<is32, source, enc, wire, origin, dec>>

CallDFloatFromBigInt(value) ==
    /\ pc = "idle"
    /\ call' = [op |-> "DFloatFromBigInt", value |-> value]
    /\ ret' = DFloatFromBigInt(value)
    /\ pc' = "converted"
    /\ UNCHANGED <<is32, source, enc, wire, origin, dec>>

CallDFloatFromAPD(value) ==
    /\ pc = "idle"
    /\ call' = [op |-> "DFloatFromAPD", value |-> value]
    /\ ret' = DFloatFromAPD(value)
    /\ pc' = "converted"
    /\ UNCHANGED <<is32, source, enc, wire, origin, dec>>

CallDFloatFromString(str) ==
    /\ pc = "idle"
    /\ call' = [op |-> "DFloatFromString", str |-> str]
    /\ ret' = DFloatFromString(str)
    /\ pc' = "converted"
    /\ UNCHANGED <<is32, source, enc, wire, origin, dec>>

CallDFloatFromFloat64(value, significantDigits) ==
    /\ pc = "idle"
    /\ call' = [op |-> "DFloatFromFloat64", value |-> value,
                significantDigits |-> significantDigits]
    /\ ret' = DFloatFromFloat64(value, significantDigits)
    /\ pc' = "converted"
    /\ UNCHANGED <<is32, source, enc, wire, origin, dec>>

\* the conversions of a DFloat value d
CallInt(d) ==
    /\ pc = "idle"
    /\ call' = [op |-> "Int", d |-> d]
    /\ ret' = DFloatInt(d)
    /\ pc' = "answered"
    /\ UNCHANGED <<is32, source, enc, wire, origin, dec>>

CallUint(d) ==
    /\ pc = "idle"
    /\ call' = [op |-> "Uint", d |-> d]
    /\ ret' = Uint(d)
    /\ pc' = "answered"
    /\ UNCHANGED <<is32, source, enc, wire, origin, dec>>

CallBigInt(d) ==
    /\ pc = "idle"
    /\ call' = [op |-> "BigInt", d |-> d]
    /\ ret' = BigInt(d)
    /\ pc' = "answered"
    /\ UNCHANGED <<is32, source, enc, wire, origin, dec>>

CallAPD(d) ==
    /\ pc = "idle"
    /\ call' = [op |-> "APD", d |-> d]
    /\ ret' = Converted(APD(d), "nil")
    /\ pc' = "answered"
    /\ UNCHANGED <<is32, source, enc, wire, origin, dec>>

\* DFloatFromAPD called on what APD() returned
CallDFloatFromAPDBack ==
    /\ pc = "answered" /\ call.op = "APD"
    /\ call' = [op |-> "DFloatFromAPD", value |-> ret.result, d |-> call.d]
    /\ ret' = DFloatFromAPD(ret.result)
    /\ pc' = "converted"
    /\ UNCHANGED <<is32, source, enc, wire, origin, dec>>

\* the classification predicates of a DFloat value d
CallIsSpecial(d) ==
    /\ pc = "idle"
    /\ call' = [op |-> "IsSpecial", d |-> d]
    /\ ret' = Converted(IsSpecial(d), "nil")
    /\ pc' = "answered"
    /\ UNCHANGED <<is32, source, enc, wire, origin, dec>>

CallIsZero(d) ==
    /\ pc = "idle"
    /\ call' = [op |-> "IsZero", d |-> d]
    /\ ret' = Converted(IsZero(d), "nil")
    /\ pc' = "answered"
    /\ UNCHANGED <<is32, source, enc, wire, origin, dec>>

CallIsInfinity(d) ==
    /\ pc = "idle"
    /\ call' = [op |-> "IsInfinity", d |-> d]
    /\ ret' = Converted(IsInfinity(d), "nil")
    /\ pc' = "answered"
    /\ UNCHANGED <<is32, source, enc, wire, origin, dec>>

CallIsNan(d) ==
    /\ pc = "idle"
    /\ call' = [op |-> "IsNan", d |-> d]
    /\ ret' = Converted(IsNan(d), "nil")
    /\ pc' = "answered"
    /\ UNCHANGED <<is32, source, enc, wire, origin, dec>>

CallIsNegativeZero(d) ==
    /\ pc = "idle"
    /\ call' = [op |-> "IsNegativeZero", d |-> d]
    /\ ret' = Converted(IsNegativeZero(d), "nil")
    /\ pc' = "answered"
    /\ UNCHANGED <<is32, source, enc, wire, origin, dec>>

CallIsNegativeInfinity(d) ==
    /\ pc = "idle"
    /\ call' = [op |-> "IsNegativeInfinity", d |-> d]
    /\ ret' = Converted(IsNegativeInfinity(d), "nil")
    /\ pc' = "answered"
    /\ UNCHANGED <<is32, source, enc, wire, origin, dec>>

CallIsSignalingNan(d) ==
    /\ pc = "idle"
    /\ call' = [op |-> "IsSignalingNan", d |-> d]
    /\ ret' = Converted(IsSignalingNan(d), "nil")
    /\ pc' = "answered"
    /\ UNCHANGED <<is32, source, enc, wire, origin, dec>>

CallFloat(d) ==
    /\ pc = "idle"
    /\ call' = [op |-> "Float", d |-> d]
    /\ ret' = Float(d)
    /\ pc' = "answered"
    /\ UNCHANGED <<is32, source, enc, wire, origin, dec>>

\* DFloatFromFloat64 called on the special value Float() returned
CallDFloatFromFloat64Back ==
    /\ pc = "answered" /\ call.op = "Float"
    /\ ret.err = "nil" /\ ret.result.class # "parsed"
    /\ call' = [op |-> "DFloatFromFloat64", value |-> ret.result,
                significantDigits |-> 0, d |-> call.d]
    /\ ret' = DFloatFromFloat64(ret.result, 0)
    /\ pc' = "converted"
    /\ UNCHANGED <<is32, source, enc, wire, origin, dec>>

Next ==
    \/ \E value \in ApdInputs, dstLen \in DstLens : CallEncode(value, dstLen)
    \/ \E value \in Float64Inputs, n \in SignificantDigits, dstLen \in DstLens :
           CallEncodeFloat64(value, n, dstLen)
    \/ \E k \in 0..BufferLen : Truncate(k)
    \/ \E k \in 1..MaxPad : Pad(k)
    \/ \E bytes \in CraftedInputs : Craft(bytes)
    \/ CallDecode
    \/ CallDFloatFromAPDDecoded
    \/ \E e \in ValueExponents, c \in ValueCoefficients : CallDFloatValue(e, c)
    \/ \E value \in UIntInputs : CallDFloatFromUInt(value)
    \/ \E value \in BigIntInputs : CallDFloatFromBigInt(value)
    \/ \E value \in ApdInputs : CallDFloatFromAPD(value)
    \/ \E str \in StringInputs : CallDFloatFromString(str)
    \/ \E value \in Float64Inputs, n \in SignificantDigits :
           CallDFloatFromFloat64(value, n)
    \/ \E d \in DFloatInputs : CallInt(d)
    \/ \E d \in DFloatInputs : CallUint(d)
    \/ \E d \in {x \in DFloatInputs : x.Exponent <= MaxBigIntExponent} : CallBigInt(d)
    \/ \E d \in DFloatInputs : CallAPD(d)
    \/ CallDFloatFromAPDBack
    \/ \E d \in DFloatInputs : CallIsSpecial(d)
    \/ \E d \in DFloatInputs : CallIsZero(d)
    \/ \E d \in DFloatInputs : CallIsInfinity(d)
    \/ \E d \in DFloatInputs : CallIsNan(d)
    \/ \E d \in DFloatInputs : CallIsNegativeZero(d)
    \/ \E d \in DFloatInputs : CallIsNegativeInfinity(d)
    \/ \E d \in DFloatInputs : CallIsSignalingNan(d)
    \/ \E d \in FloatInputs : CallFloat(d)
    \/ CallDFloatFromFloat64Back

Spec == Init /\ [][Next]_vars

\* ------------------------------------------------------------------------
\* Properties of the wire codec
\* ------------------------------------------------------------------------

\* what a decimal's value is: form and sign, and for a finite value the
\* coefficient and (unless the coefficient is zero) the exponent
SameValue(a, b) ==
    /\ a.Form = b.Form
    /\ a.Negative = b.Negative
    /\ a.Form = "Finite" => /\ a.Coeff = b.Coeff
                            /\ a.Coeff # <<>> => a.Exponent = b.Exponent

\* the values the format represents: the special values, and finite values
\* with |exponent| <= 0x7fffffff and a coefficient magnitude below 2^63
Representable(v) ==
    \/ v \in SpecialValues
    \/ /\ v.Form = "Finite"
       /\ v.Exponent # MinInt32
       /\ Cmp(v.Coeff, Two63) < 0

\* the magnitude of an int32 exponent
AbsExponent(e) ==
    IF e = MinInt32 THEN Pow2(31) ELSE IF e < 0 THEN FromInt(-e) ELSE FromInt(e)

\* the exponent field the format defines for a finite non-zero value
LayoutField(v) ==
    MulAdd(AbsExponent(v.Exponent), 4,
           (IF v.Exponent < 0 THEN 2 ELSE 0) + (IF v.Negative THEN 1 ELSE 0))

\* 0x1ffffffff
FieldLimit == FromDigits(<<8, 5, 8, 9, 9, 3, 4, 5, 9, 1>>)

\* the exponent a field of at most 0x1ffffffff stands for
FieldExponent(field) ==
    IF ModSmall(DivSmall(field, 2), 2) = 1
    THEN -ToNat(DivSmall(field, 4))
    ELSE ToNat(DivSmall(field, 4))

\* C1: decoding the bytes Encode produced for a representable value yields
\* an equal value without error, and Decode reports as consumed exactly the
\* number of bytes Encode reported as written.
RoundTrip ==
    (pc = "decoded" /\ origin = "encoded" /\ Representable(source)) =>
        /\ enc.ok
        /\ dec.err = "nil"
        /\ SameValue(dec.value, source)
        /\ dec.bytesDecoded = enc.bytesEncoded

RoundTripWitness ==
    /\ pc = "decoded" /\ origin = "encoded"
    /\ source = Decimal("Finite", TRUE, -MaxInt32, MaxInt64)
    /\ dec.value = source
    /\ dec.bytesDecoded = 14

\* the fixed byte sequence of a special value
SpecialBytes(v) ==
    IF v.Form = "Finite" THEN (IF v.Negative THEN <<3>> ELSE <<2>>)
    ELSE IF v.Form = "NaN" THEN <<128, 0>>
    ELSE IF v.Form = "NaNSignaling" THEN <<129, 0>>
    ELSE IF v.Negative THEN <<131, 0>> ELSE <<130, 0>>

\* C2: Encode produces 02 for +0, 03 for -0, 80 00 for quiet NaN, 81 00 for
\* signaling NaN, 82 00 for +infinity and 83 00 for -infinity; Decode of each
\* of these six sequences returns the corresponding value with the full
\* length consumed, so the two NaNs stay distinct through a cycle.
SpecialValueClosure ==
    /\ (pc \in {"encoded", "encodeFailed"} /\ origin = "encoded"
        /\ source \in SpecialValues
        /\ call.dstLen >= Len(SpecialBytes(source))) =>
           enc = EncodeResult(Len(SpecialBytes(source)), TRUE, SpecialBytes(source))
    /\ \A v \in SpecialValues :
           (pc = "decoded" /\ wire = SpecialBytes(v)) =>
               dec = DecodeResult(v, Len(wire), "nil")

SpecialValueClosureWitness ==
    /\ pc = "decoded" /\ origin = "encoded"
    /\ source = Decimal("NaNSignaling", FALSE, 0, <<>>)
    /\ wire = <<129, 0>>
    /\ dec.value.Form = "NaNSignaling"

\* C3: for every finite non-zero value Encode writes two consecutive ULEB128
\* integers, the exponent field (|exponent| << 2) | (exponent < 0) << 1 |
\* (value negative) and then the coefficient magnitude; "1" is 00 01, "1.5"
\* is 06 0f, "-1.2" is 07 0c and "9.445283e+5000" is 88 9c 01 a3 bf c0 04.
NormalValueLayout ==
    (origin = "encoded" /\ source.Form = "Finite" /\ source.Coeff # <<>>) =>
        /\ enc.ok
        /\ enc.bytes = ulebBytes(LayoutField(source)) \o ulebBytes(source.Coeff)
        /\ enc.bytesEncoded = Len(enc.bytes)
        /\ source = Decimal("Finite", FALSE, 0, <<1>>) => enc.bytes = <<0, 1>>
        /\ source = Decimal("Finite", FALSE, -1, <<15>>) => enc.bytes = <<6, 15>>
        /\ source = Decimal("Finite", TRUE, -1, <<12>>) => enc.bytes = <<7, 12>>
        /\ source = Decimal("Finite", FALSE, 4994, FromInt(9445283)) =>
               enc.bytes = <<136, 156, 1, 163, 191, 192, 4>>

\* the layout of C3 over the exponents -0x7fffffff .. 0x7fffffff
NormalValueLayoutInRange ==
    source.Exponent # MinInt32 => NormalValueLayout

\* the sources whose encoding Decode accepts
ValidSource == source # NilValue /\ (source.Form = "Finite" => source.Exponent # MinInt32)

\* C4: Decode of a proper prefix of a valid encoding, the empty prefix
\* included, reports the incomplete-input error and returns no value.
TruncationDetection ==
    (pc = "decoded" /\ origin = "truncated" /\ ValidSource) =>
        /\ dec.err = "ErrorIncomplete"
        /\ dec.value = NilValue

TruncationDetectionWitness ==
    /\ pc = "decoded" /\ origin = "truncated"
    /\ source = Decimal("Finite", FALSE, 4994, FromInt(9445283))
    /\ wire = <<136, 156, 1>>
    /\ dec.err = "ErrorIncomplete"

\* C5: Decode of a valid encoding followed by k >= 1 zero bytes returns the
\* same value and the same consumed-byte count as Decode of the encoding
\* alone, for the six special-value encodings as for normal values.
TrailingByteTolerance ==
    (pc = "decoded" /\ origin = "padded" /\ ValidSource) =>
        /\ dec.err = "nil"
        /\ dec.value = Decode(enc.bytes, is32).value
        /\ dec.bytesDecoded = Len(enc.bytes)

\* the part of C5 about normal values alone
TrailingByteToleranceNormal ==
    (source.Form = "Finite" /\ source.Coeff # <<>>) => TrailingByteTolerance

\* C6: when the coefficient field holds a magnitude of 2^63 or more, Decode
\* returns an arbitrary-precision value with the encoded sign, exponent and
\* full coefficient magnitude, on 32-bit and on 64-bit platforms alike.
OversizedCoefficientFallback ==
    pc = "decoded" =>
        LET first == ulebDecode(wire)
            second == ulebDecode(SubSeq(wire, first.byteCount + 1, Len(wire)))
            magnitude == IF second.isBig THEN second.asBig ELSE second.asUint
        IN (/\ first.ok /\ ~first.isBig /\ Cmp(first.asUint, FieldLimit) <= 0
            /\ second.ok /\ Cmp(magnitude, Two63) >= 0) =>
               /\ dec.err = "nil"
               /\ dec.value = Decimal("Finite", ModSmall(first.asUint, 2) = 1,
                                      FieldExponent(first.asUint), magnitude)
               /\ dec.bytesDecoded = first.byteCount + second.byteCount

OversizedCoefficientFallbackWitness ==
    /\ pc = "decoded" /\ origin = "encoded" /\ is32
    /\ source = Decimal("Finite", TRUE, -5000, MaxUint64)
    /\ dec.value = source

\* C7: Decode answers 'Exponent too big', with no value, when the exponent
\* field exceeds 0x1ffffffff or needed arbitrary precision; otherwise the
\* exponent of the value it returns is field >> 2, negated when bit 1 is
\* set, within -0x7fffffff .. 0x7fffffff.
ExponentRangeOnDecode ==
    pc = "decoded" =>
        LET first == ulebDecode(wire)
        IN IF first.isBig \/ Cmp(first.asUint, FieldLimit) > 0
           THEN dec.err = "ExponentTooBig" /\ dec.value = NilValue
           ELSE dec.value # NilValue =>
                    /\ dec.value.Exponent = FieldExponent(first.asUint)
                    /\ dec.value.Exponent >= -MaxInt32
                    /\ dec.value.Exponent <= MaxInt32

ExponentRangeOnDecodeWitness ==
    /\ pc = "decoded" /\ origin = "crafted"
    /\ wire = ulebBytes(Pow2(33)) \o <<1>>
    /\ dec.err = "ExponentTooBig"

\* ------------------------------------------------------------------------
\* Properties of the DFloat constructors
\* ------------------------------------------------------------------------

\* a constructor returned a DFloat
Returned == pc = "converted" /\ ret.err # "panic"

\* coefficient not divisible by 10, or coefficient 0 with exponent 0
Minimal(d) ==
    \/ ModSmall(d.Coefficient.mag, 10) # 0
    \/ d.Coefficient.mag = <<>> /\ d.Exponent = 0

SpecialTags == {Int64(FALSE, FromInt(c)) : c \in {0, 1, 2, 5, 6}}

\* the call was given a finite non-zero number
FiniteNonZeroInput ==
    \/ call.op = "DFloatValue" /\ call.coefficient.mag # <<>>
    \/ call.op = "DFloatFromUInt" /\ call.value # <<>>
    \/ call.op = "DFloatFromBigInt" /\ call.value.mag # <<>>
    \/ call.op = "DFloatFromAPD" /\ call.value.Form = "Finite"
                                 /\ call.value.Coeff # <<>>
    \/ call.op = "DFloatFromFloat64" /\ call.value.class = "finite"

\* C9: no constructor call (DFloatValue with an exponent argument other than
\* ExpSpecial) returns the exponent ExpSpecial with a coefficient outside the
\* five tags, and a finite non-zero input never comes back with ExpSpecial.
NoIllegalInternalState ==
    (Returned /\ ~(call.op = "DFloatValue" /\ call.exponent = ExpSpecial)) =>
        /\ ret.result.Exponent = ExpSpecial => ret.result.Coefficient \in SpecialTags
        /\ FiniteNonZeroInput => ret.result.Exponent # ExpSpecial

\* the digits of a literal made of an optional '-' and digits only, or <<>>
LiteralDigits(str) ==
    LET body == IF str # <<>> /\ str[1] = chMinus THEN Tail(str) ELSE str
    IN IF body # <<>> /\ \A i \in 1..Len(body) : isDigit(body[i])
       THEN [i \in 1..Len(body) |-> body[i] - chZero]
       ELSE <<>>

\* the length of the longest leading run of ds whose number is at most 2^63-1
KeptLength(ds) ==
    CHOOSE k \in 0..Len(ds) :
        /\ Cmp(FromDigits(SubSeq(ds, 1, k)), MaxInt64) <= 0
        /\ k < Len(ds) => Cmp(FromDigits(SubSeq(ds, 1, k + 1)), MaxInt64) > 0

\* the discarded digits ds[k+1..] against half a unit of the kept last digit
MoreThanHalf(ds, k) ==
    \/ ds[k + 1] > 5
    \/ ds[k + 1] = 5 /\ \E i \in (k + 2)..Len(ds) : ds[i] # 0

ExactlyHalf(ds, k) ==
    ds[k + 1] = 5 /\ \A i \in (k + 2)..Len(ds) : ds[i] = 0

\* the value half-to-even rounding gives a literal too long for int64: the
\* kept prefix, one more when the rest says so, times 10^discarded
RoundedLiteral(str) ==
    LET ds == LiteralDigits(str)
        k == KeptLength(ds)
        kept == FromDigits(SubSeq(ds, 1, k))
        up == MoreThanHalf(ds, k) \/ (ExactlyHalf(ds, k) /\ ModSmall(kept, 2) = 1)
        m == minimizeLoop(Len(ds) - k, IF up THEN MulAdd(kept, 1, 1) ELSE kept)
    IN DFloat(m.Exponent, Int64(str[1] = chMinus, m.mag))

\* C10: for a decimal literal whose digits do not fit a signed 64-bit
\* coefficient DFloatFromString returns the longest leading digit prefix that
\* fits, rounded half-to-even on the discarded digits, with the literal's
\* sign and the exponent raised by the number of discarded digits.
StringRoundsHalfToEven ==
    (pc = "converted" /\ call.op = "DFloatFromString"
     /\ Cmp(FromDigits(LiteralDigits(call.str)), MaxInt64) > 0) =>
        /\ ret.err = "nil"
        /\ ret.result = RoundedLiteral(call.str)

\* the three literals C10 names
StringRoundsExamples ==
    (pc = "converted" /\ call.op = "DFloatFromString") =>
        \A t \in {<<<<0, 8>>, 1>>, <<<<0, 9>>, 1>>, <<<<1, 5>>, 2>>} :
            call.str = DigitChars(<<9,2,2,3,3,7,2,0,3,6,8,5,4,7,7,5,8>> \o t[1]) =>
                ret = Converted(DFloat(1, Int64(FALSE,
                          FromDigits(<<9,2,2,3,3,7,2,0,3,6,8,5,4,7,7,5,8>> \o <<t[2]>>))),
                      "nil")

\* ------------------------------------------------------------------------
\* Properties of the conversions from float64 and from text
\* ------------------------------------------------------------------------

\* a FormatFloat text without its sign
TextBody(text) == IF text[1] = chMinus THEN Tail(text) ELSE text

\* the position of the 'e' of a text, or one past its end
TextMark(body) ==
    LET marks == {i \in 1..Len(body) : body[i] = chLowerE \/ body[i] = chUpperE}
    IN IF marks = {} THEN Len(body) + 1
       ELSE CHOOSE i \in marks : \A j \in marks : i <= j

\* the digits of the mantissa, the decimal point left out
TextDigits(body) ==
    LET m == SubSeq(body, 1, TextMark(body) - 1)
    IN [i \in 1..Len(SelectSeq(m, isDigit)) |-> SelectSeq(m, isDigit)[i] - chZero]

\* the number of mantissa digits behind the decimal point
TextFraction(body) ==
    LET m == SubSeq(body, 1, TextMark(body) - 1)
    IN IF \E i \in 1..Len(m) : m[i] = chDot
       THEN Len(m) - (CHOOSE i \in 1..Len(m) : m[i] = chDot)
       ELSE 0

RECURSIVE DigitsValue(_)
\* a short digit sequence as a number
DigitsValue(ds) ==
    IF ds = <<>> THEN 0 ELSE 10 * DigitsValue(SubSeq(ds, 1, Len(ds) - 1)) + ds[Len(ds)]

\* the exponent written behind the 'e', 0 without one
TextExponent(body) ==
    LET e == SubSeq(body, TextMark(body) + 1, Len(body))
        ds == [i \in 1..Len(SelectSeq(e, isDigit)) |-> SelectSeq(e, isDigit)[i] - chZero]
    IN IF e # <<>> /\ e[1] = chMinus THEN -DigitsValue(ds) ELSE DigitsValue(ds)

RECURSIVE StripZeros(_)
StripZeros(ds) == IF ds # <<>> /\ ds[1] = 0 THEN StripZeros(Tail(ds)) ELSE ds

\* the decimal value of a float64 text rounded half-to-even to n significant
\* digits (every digit kept for n <= 0 or n past the digits there are)
RoundedFloat(text, n) ==
    LET body == TextBody(text)
        ds == StripZeros(TextDigits(body))
        scale == TextExponent(body) - TextFraction(body)
        k == IF n <= 0 \/ n > Len(ds) THEN Len(ds) ELSE n
        kept == FromDigits(SubSeq(ds, 1, k))
        up == k < Len(ds)
              /\ (MoreThanHalf(ds, k) \/ (ExactlyHalf(ds, k) /\ ModSmall(kept, 2) = 1))
        m == minimizeLoop(scale + Len(ds) - k, IF up THEN MulAdd(kept, 1, 1) ELSE kept)
    IN DFloat(m.Exponent, Int64(text[1] = chMinus, m.mag))

\* C11: DFloatFromFloat64(value, significantDigits) of a finite non-zero
\* value returns the value's shortest decimal text rounded half-to-even to
\* significantDigits significant digits, and every digit of the text when
\* significantDigits is zero or negative.
Float64SignificantDigits ==
    (pc = "converted" /\ call.op = "DFloatFromFloat64"
     /\ call.value.class = "finite") =>
        /\ ret.err = "nil"
        /\ ret.result = RoundedFloat(call.value.text, call.significantDigits)

\* 0.5935555 to 4 digits is 5936 x 10^-4 and 1.594365 to 6 digits, a tie,
\* is 159436 x 10^-5
Float64SignificantDigitsWitness ==
    /\ pc = "converted" /\ call.op = "DFloatFromFloat64"
    /\ \/ /\ call.value.text = <<48, 46, 53, 57, 51, 53, 53, 53, 53>>
          /\ call.significantDigits = 4
          /\ ret.result = DFloat(-4, Int64(FALSE, FromInt(5936)))
       \/ /\ call.value.text = <<49, 46, 53, 57, 52, 51, 54, 53>>
          /\ call.significantDigits = 6
          /\ ret.result = DFloat(-5, Int64(FALSE, FromInt(159436)))

\* the examples C11 names
Float64SignificantDigitsExamples ==
    (pc = "converted" /\ call.op = "DFloatFromFloat64") =>
        \A t \in {<<<<48, 46, 53, 57, 51, 53, 53, 53, 53>>, 4, -4, 5936>>,
                  <<<<49, 52, 46, 55, 51, 52, 52, 53, 50, 49, 57, 49, 51, 52, 53, 52, 51>>,
                    6, -4, 147345>>,
                  <<<<49, 46, 53, 57, 52, 51, 54, 53>>, 6, -5, 159436>>,
                  <<<<48, 46, 50>>, 4, -1, 2>>,
                  <<<<48, 46, 53, 57, 51, 53, 53, 53, 53>>, 0, -7, 5935555>>} :
            (call.value.text = t[1] /\ call.significantDigits = t[2]) =>
                ret = Converted(DFloat(t[3], Int64(FALSE, FromInt(t[4]))), "nil")

\* the DFloat d denotes the integer [neg, mag] exactly
DenotesInteger(d, neg, mag) ==
    /\ d.Exponent >= 0 /\ d.Exponent <= 24
    /\ d.Coefficient.mag # <<>> => d.Coefficient.neg = neg
    /\ TimesTen(d.Coefficient.mag, d.Exponent) = mag

\* the integer handed to the constructor came back digit for digit
ExactInteger ==
    \/ call.op = "DFloatFromUInt" /\ DenotesInteger(ret.result, FALSE, call.value)
    \/ call.op = "DFloatFromBigInt"
           /\ DenotesInteger(ret.result, call.value.neg, call.value.mag)
    \/ call.op = "DFloatFromString"
           /\ DenotesInteger(ret.result, call.str[1] = chMinus,
                             FromDigits(LiteralDigits(call.str)))

\* the call was given an integer: a uint64, a big.Int or a literal of digits
IntegerInput ==
    \/ call.op \in {"DFloatFromUInt", "DFloatFromBigInt"}
    \/ call.op = "DFloatFromString" /\ LiteralDigits(call.str) # <<>>

\* C12: a conversion of an integer that rounded digits away returns its value
\* together with an error value (the rounding signal), and a conversion that
\* kept every digit returns no error.
RoundingSignal ==
    (Returned /\ IntegerInput) => (ret.err = "nil" <=> ExactInteger)

\* exact conversions return no error
ExactWithoutSignal ==
    (Returned /\ IntegerInput /\ ExactInteger) => ret.err = "nil"

\* digits with at most one '.', and at least one digit
IsMantissa(m) ==
    /\ \A i \in 1..Len(m) : isDigit(m[i]) \/ m[i] = chDot
    /\ Cardinality({i \in 1..Len(m) : m[i] = chDot}) <= 1
    /\ \E i \in 1..Len(m) : isDigit(m[i])

\* an optional sign and a non-empty run of digits
IsExponentPart(e) ==
    LET ds == IF e # <<>> /\ (e[1] = chMinus \/ e[1] = chPlus) THEN Tail(e) ELSE e
    IN ds # <<>> /\ \A i \in 1..Len(ds) : isDigit(ds[i])

\* an optionally '-'-signed decimal literal
IsLiteral(str) ==
    LET body == IF str # <<>> /\ str[1] = chMinus THEN Tail(str) ELSE str
        mark == TextMark(body)
    IN /\ IsMantissa(SubSeq(body, 1, mark - 1))
       /\ mark <= Len(body) => IsExponentPart(SubSeq(body, mark + 1, Len(body)))

\* a special-value keyword: inf and infinity with an optional '-', nan and snan
IsKeyword(str) ==
    LET negative == str # <<>> /\ str[1] = chMinus
        word == ToLower(IF negative THEN Tail(str) ELSE str)
    IN \/ word \in {strInf, strInfinity}
       \/ ~negative /\ word \in {strNan, strSnan}

\* C13: DFloatFromString returns for every string (it never panics), and
\* returns an error for every non-empty string that is neither a
\* special-value keyword nor a decimal literal.
MalformedTextIsAnError ==
    (pc = "converted" /\ call.op = "DFloatFromString") =>
        /\ ret.err # "panic"
        /\ (call.str # <<>> /\ ~IsKeyword(call.str) /\ ~IsLiteral(call.str)) =>
               ret.err = "error"

\* a literal with an empty part: no digit in front of the marker, or
\* nothing but a sign behind it
Hollow(str) ==
    LET body == IF str # <<>> /\ str[1] = chMinus THEN Tail(str) ELSE str
        mark == TextMark(body)
    IN \/ body = <<>>
       \/ body[1] = chDot /\ \A i \in 1..(mark - 1) : ~isDigit(body[i])
       \/ mark <= Len(body)
              /\ SubSeq(body, mark + 1, Len(body)) \in {<<>>, <<chMinus>>, <<chPlus>>}

\* malformed strings with no empty part are reported
MalformedTextElsewhere ==
    (pc = "converted" /\ call.op = "DFloatFromString"
     /\ ~IsKeyword(call.str) /\ ~IsLiteral(call.str) /\ ~Hollow(call.str)) =>
        ret.err = "error"

\* str spells word (given in lower case) in some mix of letter cases
Spells(str, word) ==
    /\ Len(str) = Len(word)
    /\ \A i \in 1..Len(word) : str[i] = word[i] \/ str[i] = word[i] - 32

\* str spells one of the words, behind a '-' when signed is set
SpellsOneOf(str, signed, words) ==
    IF signed THEN str # <<>> /\ str[1] = chMinus
                   /\ \E w \in words : Spells(Tail(str), w)
    ELSE \E w \in words : Spells(str, w)

InfinityWords == {<<105, 110, 102>>, <<105, 110, 102, 105, 110, 105, 116, 121>>}
NanWord == <<110, 97, 110>>
SnanWord == <<115, 110, 97, 110>>

\* C14: DFloatFromString gives +infinity for "inf" and "infinity" in any
\* letter case and -infinity behind a '-', the quiet NaN for an unsigned
\* "nan" and the signaling NaN for an unsigned "snan" in any letter case, and
\* an error for "-nan" and "-snan".
SpecialValueKeywords ==
    (pc = "converted" /\ call.op = "DFloatFromString") =>
        /\ SpellsOneOf(call.str, FALSE, InfinityWords) =>
               ret = Converted(dfloatInfinity, "nil")
        /\ SpellsOneOf(call.str, TRUE, InfinityWords) =>
               ret = Converted(dfloatNegativeInfinity, "nil")
        /\ SpellsOneOf(call.str, FALSE, {NanWord}) => ret = Converted(dfloatNaN, "nil")
        /\ SpellsOneOf(call.str, FALSE, {SnanWord}) =>
               ret = Converted(dfloatSignalingNaN, "nil")
        /\ SpellsOneOf(call.str, TRUE, {NanWord, SnanWord}) => ret.err = "error"

\* "INFINITY" came back as +infinity, or "-NaN" as an error
SpecialValueKeywordsWitness ==
    /\ pc = "converted" /\ call.op = "DFloatFromString"
    /\ \/ /\ call.str = <<73, 78, 70, 73, 78, 73, 84, 89>>
          /\ ret = Converted(dfloatInfinity, "nil")
       \/ /\ call.str = <<45, 78, 97, 78>>
          /\ ret.err = "error"

\* a decimal literal whose significand digits are all zero
ZeroLiteral(str) ==
    LET body == IF str # <<>> /\ str[1] = chMinus THEN Tail(str) ELSE str
    IN /\ IsLiteral(str)
       /\ \A i \in 1..(TextMark(body) - 1) : body[i] \in {chZero, chDot}

\* C15: DFloatFromString of the empty string returns positive zero, and of a
\* literal whose significand digits are all zero positive zero when unsigned
\* and the negative-zero special value behind a '-', whatever the fractional
\* digits and the exponent part.
ZeroParsing ==
    (pc = "converted" /\ call.op = "DFloatFromString") =>
        /\ call.str = <<>> => ret = Converted(dfloatZero, "nil")
        /\ ZeroLiteral(call.str) =>
               ret = Converted(IF call.str[1] = chMinus THEN dfloatNegativeZero
                               ELSE dfloatZero, "nil")

\* the same for literals with an exponent part of at most six characters
ZeroParsingShortExponent ==
    (pc = "converted" /\ call.op = "DFloatFromString") =>
        /\ call.str = <<>> => ret = Converted(dfloatZero, "nil")
        /\ (ZeroLiteral(call.str)
            /\ Len(call.str) - TextMark(call.str) <= 6) =>
               ret = Converted(IF call.str[1] = chMinus THEN dfloatNegativeZero
                               ELSE dfloatZero, "nil")

\* |a - b| for naturals
Distance(a, b) == IF Cmp(a, b) >= 0 THEN Sub(a, b) ELSE Sub(b, a)

\* r is v rounded half-to-even to a multiple of 10
NearestTen(r, v) ==
    /\ ModSmall(r, 10) = 0
    /\ Cmp(Distance(r, v), <<5>>) <= 0
    /\ Distance(r, v) = <<5>> => ModSmall(DivSmall(r, 10), 2) = 0

\* C16: DFloatFromUInt(v) denotes exactly v for v <= 2^63-1 and, for a
\* larger v, v rounded half-to-even to a multiple of 10; its coefficient is
\* never negative.
UIntConstruction ==
    (pc = "converted" /\ call.op = "DFloatFromUInt") =>
        LET d == ret.result
            denoted == TimesTen(d.Coefficient.mag, d.Exponent)
        IN /\ ret.err = "nil"
           /\ ~d.Coefficient.neg
           /\ d.Exponent >= 0 /\ d.Exponent <= 19
           /\ IF Cmp(call.value, MaxInt64) <= 0 THEN denoted = call.value
              ELSE NearestTen(denoted, call.value)

\* 9223372036854775815, a tie, came back as 922337203685477582 x 10^1
UIntConstructionWitness ==
    /\ pc = "converted" /\ call.op = "DFloatFromUInt"
    /\ call.value = Add(Two63, <<7>>)
    /\ ret.result = DFloat(1, Int64(FALSE,
           FromDigits(<<9,2,2,3,3,7,2,0,3,6,8,5,4,7,7,5,8,2>>)))

\* the three values C16 names
UIntConstructionExamples ==
    (pc = "converted" /\ call.op = "DFloatFromUInt") =>
        \A t \in {<<0, 1>>, <<7, 2>>, <<17, 2>>} :
            call.value = Add(Two63, <<t[1]>>) =>
                ret.result = DFloat(1, Int64(FALSE,
                    FromDigits(<<9,2,2,3,3,7,2,0,3,6,8,5,4,7,7,5,8>> \o <<t[2]>>)))

\* ------------------------------------------------------------------------
\* Properties of the conversions from DFloat
\* ------------------------------------------------------------------------

\* the magnitude of d's coefficient x 10^exponent stays within limit; only
\* exponents up to 20 need the product
ScaledWithin(d, limit) ==
    \/ d.Coefficient.mag = <<>>
    \/ /\ d.Exponent <= 20
       /\ Cmp(TimesTen(d.Coefficient.mag, d.Exponent), limit) <= 0

\* d's coefficient x 10^exponent as an integer [neg, mag]
ScaledValue(d) ==
    IF d.Coefficient.mag = <<>> THEN Int64(FALSE, <<>>)
    ELSE Int64(d.Coefficient.neg, TimesTen(d.Coefficient.mag, d.Exponent))

\* C17: Int() returns coefficient x 10^exponent with no error for every
\* DFloat of either coefficient sign with an exponent >= 0 and a scaled value
\* in the int64 range, and an error for every other DFloat (negative
\* exponent, the special values included, or a scaled value outside int64).
IntConversion ==
    (pc = "answered" /\ call.op = "Int") =>
        IF call.d.Exponent >= 0
           /\ ScaledWithin(call.d, IF call.d.Coefficient.neg THEN Two63 ELSE MaxInt64)
        THEN ret = Converted(ScaledValue(call.d), "nil")
        ELSE ret.err = "error"

\* the same for the values with a positive coefficient
IntConversionPositive ==
    (pc = "answered" /\ call.op = "Int"
     /\ ~call.d.Coefficient.neg /\ call.d.Coefficient.mag # <<>>) =>
        IF call.d.Exponent >= 0 /\ ScaledWithin(call.d, MaxInt64)
        THEN ret = Converted(ScaledValue(call.d), "nil")
        ELSE ret.err = "error"

\* no negative coefficient is converted
IntRejectsNegative ==
    (pc = "answered" /\ call.op = "Int" /\ call.d.Coefficient.neg) =>
        ret.err = "error"

\* C18: Uint() returns an error whenever the exponent is negative, the
\* coefficient is negative or coefficient x 10^exponent exceeds 2^64-1, and
\* otherwise exactly coefficient x 10^exponent.
UintConversion ==
    (pc = "answered" /\ call.op = "Uint") =>
        IF call.d.Exponent < 0 \/ call.d.Coefficient.neg
           \/ ~ScaledWithin(call.d, MaxUint64)
        THEN ret.err = "error"
        ELSE ret = Converted(ScaledValue(call.d).mag, "nil")

\* the same for the values with a positive coefficient
UintConversionPositive ==
    (pc = "answered" /\ call.op = "Uint"
     /\ ~call.d.Coefficient.neg /\ call.d.Coefficient.mag # <<>>) =>
        IF call.d.Exponent < 0 \/ ~ScaledWithin(call.d, MaxUint64)
        THEN ret.err = "error"
        ELSE ret = Converted(ScaledValue(call.d).mag, "nil")

\* coefficient 1844674407370955161: exponent 1 succeeds, 2 and -1 fail
UintConversionExamples ==
    (pc = "answered" /\ call.op = "Uint"
     /\ call.d.Coefficient
            = Int64(FALSE, FromDigits(<<1,8,4,4,6,7,4,4,0,7,3,7,0,9,5,5,1,6,1>>))) =>
        /\ call.d.Exponent = 1 =>
               ret = Converted(Sub(MaxUint64, <<5>>), "nil")
        /\ call.d.Exponent \in {2, -1} => ret.err = "error"

\* C19: BigInt() returns an error if and only if the exponent is negative,
\* and for an exponent e >= 0 the integer with the coefficient's sign whose
\* decimal digits are the coefficient's followed by e zeros.
BigIntConversion ==
    (pc = "answered" /\ call.op = "BigInt") =>
        LET c == call.d.Coefficient
        IN IF call.d.Exponent < 0 THEN ret.err = "error"
           ELSE /\ ret.err = "nil"
                /\ ret.result.neg = c.neg
                /\ ToDigits(ret.result.mag)
                       = IF c.mag = <<>> THEN <<>>
                         ELSE ToDigits(c.mag) \o [i \in 1..call.d.Exponent |-> 0]

\* -1234 x 10^1 came back as -12340, or a most negative coefficient scaled
\* by 10^20
BigIntConversionWitness ==
    /\ pc = "answered" /\ call.op = "BigInt" /\ ret.err = "nil"
    /\ \/ /\ call.d = DFloat(1, Int64(TRUE, FromInt(1234)))
          /\ ret.result = Int64(TRUE, FromInt(12340))
       \/ /\ call.d = DFloat(20, Int64(TRUE, Two63))
          /\ Len(ToDigits(ret.result.mag)) = 39

\* d is one of the six special values, or a minimized number with an
\* exponent in -0x7fffffff .. 0x7fffffff
MinimizedValue(d) ==
    \/ d \in {dfloatZero, dfloatNegativeZero, dfloatInfinity,
              dfloatNegativeInfinity, dfloatNaN, dfloatSignalingNaN}
    \/ d.Exponent # ExpSpecial /\ Minimal(d)

\* DFloatFromAPD has answered for the apd.Decimal that d.APD() returned
BridgedBack == pc = "converted" /\ call.op = "DFloatFromAPD" /\ "d" \in DOMAIN call

\* C20: for every minimized DFloat d, the most negative coefficient and the
\* six special values included, DFloatFromAPD(d.APD()) returns d.
LosslessBridge ==
    (BridgedBack /\ MinimizedValue(call.d)) => ret = Converted(call.d, "nil")

\* the same for every coefficient but the most negative one
LosslessBridgeAboveMinimum ==
    (BridgedBack /\ MinimizedValue(call.d)
     /\ call.d.Coefficient # Int64(TRUE, Two63)) =>
        ret = Converted(call.d, "nil")

\* ------------------------------------------------------------------------
\* Properties of the classification predicates
\* ------------------------------------------------------------------------

Predicates ==
    {"IsSpecial", "IsZero", "IsInfinity", "IsNan", "IsNegativeZero",
     "IsNegativeInfinity", "IsSignalingNan"}

\* the predicates a value is to satisfy
TruthTable(d) ==
    IF d = Zero THEN {"IsZero"}
    ELSE IF d = NegativeZero THEN {"IsZero", "IsNegativeZero", "IsSpecial"}
    ELSE IF d = Infinity THEN {"IsInfinity", "IsSpecial"}
    ELSE IF d = NegativeInfinity
    THEN {"IsInfinity", "IsNegativeInfinity", "IsSpecial"}
    ELSE IF d = QuietNaN THEN {"IsNan", "IsSpecial"}
    ELSE IF d = SignalingNaN THEN {"IsNan", "IsSignalingNan", "IsSpecial"}
    ELSE {}

\* d is one of the six named values or a number other than zero
Classified(d) ==
    \/ d \in {Zero, NegativeZero, Infinity, NegativeInfinity, QuietNaN, SignalingNaN}
    \/ d.Exponent # ExpSpecial /\ d.Coefficient.mag # <<>>

\* C21: each predicate answers as the truth table says: Zero() satisfies only
\* IsZero, the five special values IsSpecial and their own predicates, and a
\* non-special value with a non-zero coefficient none.
ClassificationTruthTable ==
    (pc = "answered" /\ call.op \in Predicates /\ Classified(call.d)) =>
        (ret.result <=> call.op \in TruthTable(call.d))

\* IsInfinity() answered true for the negative infinity
ClassificationTruthTableWitness ==
    /\ pc = "answered" /\ call.op = "IsInfinity"
    /\ call.d = NegativeInfinity
    /\ ret.result = TRUE

\* ------------------------------------------------------------------------
\* Properties of the NaN conversions
\* ------------------------------------------------------------------------

\* the top bit of the 52-bit mantissa
MantissaTop(bits) == isSet(bits, Pow2(quietShiftIEEE))

\* DFloatFromFloat64 has answered for the float64 that d.Float() returned
FloatBridgedBack ==
    pc = "converted" /\ call.op = "DFloatFromFloat64" /\ "d" \in DOMAIN call

\* C22: DFloatFromFloat64 of a NaN returns QuietNaN when bit 51 of its
\* pattern is set and SignalingNaN when it is clear; Float() of QuietNaN and
\* of SignalingNaN returns a NaN with that bit set and cleared; and
\* DFloatFromFloat64(d.Float(), 0) = d for both.
NanBitPattern ==
    /\ (pc = "converted" /\ call.op = "DFloatFromFloat64"
        /\ call.value.class = "nan") =>
           ret = Converted(IF MantissaTop(call.value.bits) THEN QuietNaN
                           ELSE SignalingNaN, "nil")
    /\ (pc = "answered" /\ call.op = "Float"
        /\ call.d \in {QuietNaN, SignalingNaN}) =>
           /\ ret.result.class = "nan"
           /\ MantissaTop(ret.result.bits) <=> call.d = QuietNaN
    /\ (FloatBridgedBack /\ call.d \in {QuietNaN, SignalingNaN}) =>
           ret = Converted(call.d, "nil")

\* the two NaN values come back from Float() and DFloatFromFloat64 unchanged
NanRoundTrip ==
    (FloatBridgedBack /\ call.d \in {QuietNaN, SignalingNaN}) =>
        ret = Converted(call.d, "nil")

\* ------------------------------------------------------------------------
\* EncodeFloat64
\* ------------------------------------------------------------------------

\* the coefficient of a float64 text rounded half-to-even to n significant
\* digits, every digit kept for n < 1 or n past the digits there are
RoundedCoefficient(text, n) ==
    LET ds == StripZeros(TextDigits(TextBody(text)))
        k == IF n < 1 \/ n > Len(ds) THEN Len(ds) ELSE n
        kept == FromDigits(SubSeq(ds, 1, k))
        up == k < Len(ds)
              /\ (MoreThanHalf(ds, k) \/ (ExactlyHalf(ds, k) /\ ModSmall(kept, 2) = 1))
    IN IF up THEN MulAdd(kept, 1, 1) ELSE kept

\* the bytes behind the first field of an encoding
CoefficientBytes(bytes) == SubSeq(bytes, TermIndex(bytes, 1) + 1, Len(bytes))

EncodedFloat ==
    /\ pc = "encoded" /\ origin = "float64"
    /\ call.value.class = "finite"

\* C23: the coefficient EncodeFloat64 writes for a finite non-zero float64
\* is the value's decimal digit string rounded half-to-even to
\* significantDigits significant digits, negative values alike, and every
\* digit of the string when significantDigits is below 1.
EncodeFloat64Rounding ==
    EncodedFloat =>
        CoefficientBytes(wire)
            = ulebBytes(RoundedCoefficient(call.value.text, call.significantDigits))

\* ------------------------------------------------------------------------
\* the size of an encoding
\* ------------------------------------------------------------------------

\* an encode call has just returned, with or without success
EncodeReturned ==
    /\ pc \in {"encoded", "encodeFailed"}
    /\ origin \in {"encoded", "float64"}

\* the values a DFloat can hold: a special value, or an int64 coefficient
\* with an exponent in -0x7fffffff .. 0x7fffffff
HoldsDFloat(value) ==
    \/ value \in SpecialValues
    \/ /\ value.Form = "Finite"
       /\ Cmp(value.Coeff, IF value.Negative THEN Two63 ELSE MaxInt64) <= 0
       /\ value.Exponent # MinInt32

\* C24: MaxEncodeLength is an upper bound of every encoding of a DFloat value
\* and of a float64: an encode into a buffer of MaxEncodeLength bytes
\* succeeds and writes at most MaxEncodeLength bytes.
MaxEncodeLengthSuffices ==
    (EncodeReturned /\ call.dstLen = MaxEncodeLength
     /\ (origin = "encoded" => HoldsDFloat(source))) =>
        /\ enc.ok
        /\ enc.bytesEncoded <= MaxEncodeLength
        /\ Len(wire) <= MaxEncodeLength

\* the number of bytes the encoding of a value takes
EncodingLength(value) ==
    IF apdIsZero(value) THEN 1
    ELSE IF value.Form # "Finite" THEN 2
    ELSE Len(ulebBytes(exponentFieldOf(value))) + Len(ulebBytes(value.Coeff))

\* C25: Encode answers ok=false exactly when the destination is shorter than
\* the encoding, writes nothing past the destination's end, and the byte
\* count it returns with the failure is the length of the whole encoding.
CapacityFailure ==
    (EncodeReturned /\ origin = "encoded") =>
        /\ enc.ok <=> call.dstLen >= EncodingLength(source)
        /\ Len(wire) <= call.dstLen
        /\ ~enc.ok => enc.bytesEncoded = EncodingLength(source)

\* a finite value other than zero has been encoded
EncodedNormal ==
    /\ pc = "encoded" /\ origin = "encoded"
    /\ source.Form = "Finite" /\ ~apdIsZero(source)

\* C26: the encoding of a finite non-zero value is at least 2 bytes long and
\* is not a 2-byte sequence ending in 0x00, so Decode's 1-byte and 2-byte
\* special-value fast path never takes it.
NormalNeverSpecial ==
    EncodedNormal =>
        /\ Len(wire) >= 2
        /\ ~(Len(wire) = 2 /\ wire[2] = 0)
        /\ DecodeSpecial(wire).err = "none"
        /\ Decode(wire, is32) = DecodeFields(wire, is32)

\* 1, the shortest encoding there is: exponent field 0x00, coefficient 0x01
NormalNeverSpecialWitness ==
    /\ EncodedNormal
    /\ source = Decimal("Finite", FALSE, 0, <<1>>)
    /\ wire = <<0, 1>>
    /\ DecodeSpecial(wire).err = "none"

\* ------------------------------------------------------------------------
\* the codec against DFloatFromAPD
\* ------------------------------------------------------------------------

\* a finite non-zero decimal with a coefficient below 2^63 went through
\* Encode and Decode and then through DFloatFromAPD
Bridged ==
    /\ pc = "bridged"
    /\ source.Form = "Finite" /\ ~apdIsZero(source)
    /\ Cmp(source.Coeff, Two63) < 0

\* C27: the value decoded from the encoding of a decimal x with a coefficient
\* below 2^63 has the exponent and the coefficient of DFloatFromAPD(x), also
\* when the coefficient of x ends in decimal zeros.
CodecAgreesWithBridge ==
    Bridged =>
        /\ ret.err = "nil"
        /\ dec.value.Exponent = ret.result.Exponent
        /\ Int64(dec.value.Negative, dec.value.Coeff) = ret.result.Coefficient

\* ------------------------------------------------------------------------
\* minimized()
\* ------------------------------------------------------------------------

\* C28: minimized() returns a special input unchanged, and for exponent e
\* and a coefficient c other than 0 returns (e', c') with e' >= e, e' not
\* ExpSpecial, and c' x 10^(e' - e) = c: the value is the same and the
\* exponent grew by the number of zeros removed, without wrapping around.
MinimizedPreservesValue ==
    (pc = "converted" /\ call.op = "DFloatValue") =>
        IF call.exponent = ExpSpecial
        THEN ret.result = DFloat(call.exponent, call.coefficient)
        ELSE call.coefficient.mag # <<>> =>
                /\ ret.result.Exponent # ExpSpecial
                /\ ret.result.Exponent >= call.exponent
                /\ ret.result.Coefficient.neg = call.coefficient.neg
                /\ TimesTen(ret.result.Coefficient.mag,
                            ret.result.Exponent - call.exponent)
                       = call.coefficient.mag

\* ------------------------------------------------------------------------
\* the exponent field
\* ------------------------------------------------------------------------

\* |e| of an int32 as an unsigned number
Magnitude32(e) ==
    IF e = MinInt32 THEN Pow2(31) ELSE IF e < 0 THEN FromInt(-e) ELSE FromInt(e)

\* the exponent field at the head of an encoding, whatever its width
FieldWritten(bytes) ==
    LET first == ulebDecode(bytes)
    IN IF first.isBig THEN first.asBig ELSE first.asUint

\* C29: the exponent field Encode writes for a finite non-zero decimal of
\* any int32 exponent, and EncodeFloat64 for a finite non-zero float64, is at
\* most 0x1ffffffff, its bits above the two flags are |exponent|, and Decode
\* does not answer "Exponent too big" for the bytes.
ExponentFieldAccepted ==
    /\ EncodedNormal =>
           /\ Cmp(FieldWritten(wire), maxEncodedExponent) <= 0
           /\ ShiftRight(FieldWritten(wire), 2) = Magnitude32(source.Exponent)
           /\ Decode(wire, is32).err # "ExponentTooBig"
    /\ EncodedFloat =>
           /\ Cmp(FieldWritten(wire), maxEncodedExponent) <= 0
           /\ Decode(wire, is32).err # "ExponentTooBig"

\* ------------------------------------------------------------------------
\* what Decode returns
\* ------------------------------------------------------------------------

\* C30: for every input Decode returns either no error, a value and a byte
\* count from 1 to len(src), or an error and no value; a value never comes
\* with an error, also when the exponent field is incomplete.
DecodeWellFormed ==
    pc = "decoded" =>
        \/ /\ dec.err = "nil"
           /\ dec.value # NilValue
           /\ 1 <= dec.bytesDecoded /\ dec.bytesDecoded <= Len(wire)
        \/ /\ dec.err \in {"ErrorIncomplete", "ExponentTooBig"}
           /\ dec.value = NilValue

\* an exponent field cut short inside a multi-byte encoding: Decode answers
\* ErrorIncomplete and no value
DecodeWellFormedWitness ==
    /\ pc = "decoded" /\ origin = "truncated"
    /\ wire # <<>> /\ ~ulebDecode(wire).ok
    /\ dec.err = "ErrorIncomplete" /\ dec.value = NilValue

====
